---- MODULE Spec2Model ----
(***************************************************************************)
(* Meeting-bot orchestrator: the session scheduler (SessionManager), the   *)
(* per-session runner, the profile registry (PersistentProfileManager),    *)
(* the audio loop (AudioCaptureLoop), the end detector                     *)
(* (MeetingEndDetector) and the roster loop (participants_loop).           *)
(*                                                                         *)
(* The program is an asyncio program: a step of the model is the code a    *)
(* task runs between two suspension points.                                *)
(***************************************************************************)
EXTENDS Integers, Sequences, FiniteSets, TLC

(***************************************************************************)
(* Bounds of the model.                                                    *)
(***************************************************************************)
\* settings.max_concurrent_sessions of the scheduler runs (Spec, LiveSpec)
MaxConcurrentSessions == 1
\* number of sessions admitted in a scheduler run: one more than the capacity
NumSessions == MaxConcurrentSessions + 1
\* number of concurrently dispatched sessions in RunnersSpec
NumRunners == 3
\* number of rejected admissions the model counts
MaxRejected == 1
\* the audio loop starts no iteration once chunk_counter has reached this
MaxChunkCounter == 4
\* number of empty checks the end detector makes in a run
MaxPolls == 6
\* number of rows of a roster snapshot
MaxRows == 2
\* number of rows of a roster snapshot in a whole-session run (SessionSpec)
MaxSessionRows == 1
\* the largest count the participant badge of a page shows
MaxBadge == 2
\* the clock of the improved audio loop stops at MaxNow seconds
MaxNow == 100
\* number of sink calls a caller makes in a run (SinksSpec)
MaxCalls == 3
\* rows of a poll and number of polls in a run of the history update
MaxPollRows == 2
MaxHistoryPolls == 3
\* number of rows an extraction method returns (ExtractSpec)
MaxMethodRows == 1

(***************************************************************************)
(* Configuration (src/src/config.py).                                      *)
(***************************************************************************)
\* settings.google_login_required
google_login_required == TRUE

(***************************************************************************)
(* URL validation: TEAMS_URL_RE / GMEET_URL_RE with re.IGNORECASE and      *)
(* re.match (anchored at the start, anything may follow).  A URL is a      *)
(* sequence of characters.                                                 *)
(***************************************************************************)
TEAMS_URL_RE ==
  <<"h","t","t","p","s",":","/","/","t","e","a","m","s",".","m","i","c","r","o","s","o","f","t",".","c","o","m","/">>
GMEET_URL_RE ==
  <<"h","t","t","p","s",":","/","/","m","e","e","t",".","g","o","o","g","l","e",".","c","o","m","/">>

LowerChar(c) ==
  CASE c = "H" -> "h" [] c = "T" -> "t" [] c = "P" -> "p" [] c = "S" -> "s"
    [] c = "M" -> "m" [] c = "E" -> "e" [] c = "G" -> "g" [] c = "O" -> "o"
    [] c = "L" -> "l" [] c = "C" -> "c" [] c = "A" -> "a" [] c = "I" -> "i"
    [] c = "R" -> "r" [] c = "F" -> "f" [] c = "X" -> "x"
    [] c = "B" -> "b" [] c = "Y" -> "y" [] c = "D" -> "d" [] c = "J" -> "j"
    [] c = "K" -> "k" [] c = "N" -> "n" [] c = "Q" -> "q" [] c = "U" -> "u"
    [] c = "V" -> "v" [] c = "W" -> "w" [] c = "Z" -> "z"
    [] OTHER -> c

\* pattern.match(url): the literal prefix matches case-insensitively; the
\* trailing .* matches any rest
ReMatch(pattern, url) ==
  /\ Len(url) >= Len(pattern)
  /\ \A i \in 1..Len(pattern) : LowerChar(url[i]) = pattern[i]

\* the URLs the admission requests of the model carry
UrlGmeet == GMEET_URL_RE \o <<"a","b","c">>
UrlGmeetUpper == <<"H","T","T","P","S",":","/","/","M","E","E","T",".","G","O","O","G","L","E",".","C","O","M","/","x">>
UrlGmeetNoSlash == <<"h","t","t","p","s",":","/","/","m","e","e","t",".","g","o","o","g","l","e",".","c","o","m">>
UrlGmeetHttp == <<"h","t","t","p",":","/","/","m","e","e","t",".","g","o","o","g","l","e",".","c","o","m","/","a">>
UrlTeams == TEAMS_URL_RE \o <<"l","/","m">>
UrlExample == <<"h","t","t","p","s",":","/","/","e","x","a","m","p","l","e",".","c","o","m","/","b","a","d">>
UrlEmpty == << >>
Urls == {UrlGmeet, UrlGmeetUpper, UrlGmeetNoSlash, UrlGmeetHttp, UrlTeams, UrlExample, UrlEmpty}

Platforms == {"teams", "gmeet"}

\* _validate_meeting_url: TRUE when it returns, FALSE when it raises ValueError
ValidMeetingUrl(platform, url) ==
  /\ ~(platform = "teams" /\ ~ReMatch(TEAMS_URL_RE, url))
  /\ ~(platform = "gmeet" /\ ~ReMatch(GMEET_URL_RE, url))

(***************************************************************************)
(* State.                                                                  *)
(***************************************************************************)
VARIABLES
  capacity,        \* settings.max_concurrent_sessions of this run
  sessions,        \* keys of SessionManager._sessions
  next_id,         \* next fresh session id
  queue,           \* SessionManager._queue
  semaphore,       \* value of SessionManager._semaphore (free permits)
  worker_pc,       \* position of _worker: "get" or "acquire"
  worker_session,  \* the session _worker holds between get() and acquire()
  status,          \* MeetingSession.status ("none": no such session yet)
  error,           \* MeetingSession.error ("none": None)
  platform,        \* MeetingSession.platform
  pc,              \* position of the session's runner task
  exc,             \* an exception is propagating out of the page scope
  events,          \* events published per session (event_publisher.publish_event)
  rejected,        \* number of enqueue_session calls that raised ValueError
  active_sessions, \* PersistentProfileManager._active_sessions
  profile_dirs,    \* profile directories that exist under profiles_root
  profile_listed,  \* profile directories list_profiles() reports
  stop_event,      \* stop_event of _run_session_loops is set
  audio_pc,        \* position of the audio task (AudioCaptureLoop.run)
  audio_capture,   \* AudioCaptureLoop._audio_capture is not None
  chunk_counter,   \* AudioCaptureLoop.chunk_counter
  chunk_id,        \* the counter value embedded in chunk_id of this iteration
  audio_bytes,     \* what audio_bytes of this iteration holds
  chunks,          \* the audio chunks saved by upload_bytes_with_retry
  detector_pc,     \* position of wait_for_meeting_end
  consecutive_empty_checks, \* the local of wait_for_meeting_end
  empty_log,       \* the results of _check_meeting_empty, oldest first
  end_reason,      \* why wait_for_meeting_end returned ("none": it has not)
  roster_pc,       \* position of the roster task (participants_loop)
  participants,    \* session.last_participants
  participants_again,  \* the confirmation extraction of participants_loop
  participants_history, \* session.participants_history
  chunk_interval_seconds, \* AudioCaptureLoop.chunk_interval_seconds
  page,            \* what the meeting page shows to the end detector
  summary,         \* the summary build_summary returned
  post_click,      \* what the page shows once the join button was clicked
  improved_loop,   \* an ImprovedAudioCaptureLoop and the clock it reads
  sink,            \* a call of publish_event or upload_bytes_with_retry
  call             \* a call of a function: its arguments and its result

schedFixed == <<capacity, sessions, next_id, queue, semaphore, worker_pc,
                worker_session, status, error, platform, pc, exc, rejected>>
schedVars == <<capacity, sessions, next_id, queue, semaphore, worker_pc,
               worker_session, status, error, platform, pc, exc, events,
               rejected>>
profileVars == <<active_sessions, profile_dirs, profile_listed>>
audioVars == <<audio_pc, audio_capture, chunk_counter, chunk_id, audio_bytes,
               chunks>>
detectorVars == <<detector_pc, consecutive_empty_checks, empty_log, end_reason>>
rosterVars == <<roster_pc, participants, participants_again,
                participants_history>>
loopVars == <<stop_event, audioVars, detectorVars, rosterVars>>
compVars == <<improved_loop, sink, call>>
flowVars == <<post_click, compVars>>
callVars == <<chunk_interval_seconds, page, summary, flowVars>>

vars == <<schedVars, profileVars, loopVars, callVars>>

\* the audio loop is constructed with its default interval; no page is
\* under inspection and no summary has been built
NoPage == [badge_count |-> 0, rows |-> << >>, raises |-> FALSE]
NoSummary == [participants |-> << >>]
\* the join button has not been clicked
NoPostClick ==
  [url_ok |-> FALSE, meeting_ui |-> FALSE, waiting_text |-> FALSE, waiting_elem |-> "none"]
\* no ImprovedAudioCaptureLoop has been constructed
NoImprovedLoop == [pc |-> "none"]
\* no sink call is in progress
NoSink == [op |-> "none"]
\* no function call is under inspection
NoCall == [fn |-> "none"]
CompIdle ==
  /\ improved_loop = NoImprovedLoop
  /\ sink = NoSink
  /\ call = NoCall
FlowIdle ==
  /\ post_click = NoPostClick
  /\ CompIdle
CallsIdle ==
  /\ chunk_interval_seconds = 30
  /\ page = NoPage
  /\ summary = NoSummary
  /\ FlowIdle

\* no loop of _run_session_loops has been created
LoopsIdle ==
  /\ stop_event = FALSE
  /\ audio_pc = "none"
  /\ audio_capture = FALSE
  /\ chunk_counter = 0
  /\ chunk_id = 0
  /\ audio_bytes = "none"
  /\ chunks = << >>
  /\ detector_pc = "none"
  /\ consecutive_empty_checks = 0
  /\ empty_log = << >>
  /\ end_reason = "none"
  /\ roster_pc = "none"
  /\ participants = << >>
  /\ participants_again = << >>
  /\ participants_history = << >>

\* the session ids of this run
Sessions == DOMAIN pc

(***************************************************************************)
(* Profile registry (src/src/google_auth/persistent_profile.py).           *)
(* Profile 0 is settings.gmeet_profile_name ("google_main"), profile k >= 1 *)
(* is "google_k".                                                          *)
(***************************************************************************)
gmeet_profile_name == 0
NoProfile == -1
\* upper bound of the google_k counter: no run creates more profiles than
\* it has sessions
MaxProfile == NumSessions + NumRunners

\* position of a profile name in sorted(): "google_1" < "google_2" < ... <
\* "google_main" (digits sort before letters)
SortKey(p) == IF p = gmeet_profile_name THEN MaxProfile + 1 ELSE p

\* the profile names held by some session: _active_sessions.values()
HeldProfiles(active) == {active[s] : s \in DOMAIN active} \ {NoProfile}

\* get_profile_status(profile_name).is_available
IsAvailable(p, active, dirs) ==
  IF p \notin dirs THEN TRUE ELSE p \notin HeldProfiles(active)

\* list_profiles(): the directories that look like a browser profile
list_profiles(listed) == listed

\* the first available profile of the sorted on-disk set, NoProfile if none
FirstAvailable(active, dirs, listed) ==
  LET free == {p \in list_profiles(listed) : IsAvailable(p, active, dirs)}
  IN IF free = {} THEN NoProfile
     ELSE CHOOSE p \in free : \A q \in free : SortKey(p) <= SortKey(q)

\* the counter loop: the smallest k >= 1 with google_k not in all_profiles
NewProfileName(listed) ==
  CHOOSE k \in 1..MaxProfile :
    /\ k \notin list_profiles(listed)
    /\ \A j \in 1..(k - 1) : j \in list_profiles(listed)

\* allocate_profile(session_id): the profile name it returns
allocate_profile(active, dirs, listed) ==
  IF IsAvailable(gmeet_profile_name, active, dirs) THEN gmeet_profile_name
  ELSE IF FirstAvailable(active, dirs, listed) # NoProfile
       THEN FirstAvailable(active, dirs, listed)
       ELSE NewProfileName(listed)

\* release_profile(session_id): _active_sessions.pop(session_id)
release_profile(active, s) == [active EXCEPT ![s] = NoProfile]

(***************************************************************************)
(* Session scheduler (src/src/session_manager.py).                         *)
(***************************************************************************)
Terminal == {"ended", "failed"}
Running == {"joining", "in_meeting"}

Event(type, st) == [type |-> type, status |-> st]

\* build_summary: validated_audio_chunks = max(0, audio_chunks)
validated_audio_chunks(audio_chunks) == IF audio_chunks < 0 THEN 0 ELSE audio_chunks

\* build_summary: audio_duration_seconds = validated_audio_chunks * 30
audio_duration_seconds(audio_chunks) == validated_audio_chunks(audio_chunks) * 30

\* the meeting_summary event: build_summary's status and audio accounting;
\* errors = [session.error] if session.error else None, and build_summary
\* adds the errors key only for a non-empty list (<< >>: no errors key)
SummaryEvent(st, audio_chunks, err) ==
  [type |-> "meeting_summary", status |-> st,
   audio_chunks |-> validated_audio_chunks(audio_chunks),
   audio_duration_seconds |-> audio_duration_seconds(audio_chunks),
   errors |-> IF err = "none" THEN << >> ELSE <<err>>]

\* the loops of the session are modelled step by step (they start idle);
\* where they are not, the meeting is a single step of the runner
LoopsModelled == audio_pc # "none"

\* the runner positions at which the runner holds a concurrency permit
HoldsPermit(s) == pc[s] \notin {"none", "queued", "taken", "done"}

\* enqueue_session that stores and queues the session before it validates
enqueue_session_LateValidate(plat, url) ==
  IF ~ValidMeetingUrl(plat, url)
  THEN /\ rejected < MaxRejected
       /\ next_id \in Sessions
       /\ rejected' = rejected + 1
       /\ sessions' = sessions \cup {next_id}
       /\ status' = [status EXCEPT ![next_id] = "created"]
       /\ platform' = [platform EXCEPT ![next_id] = plat]
       /\ pc' = [pc EXCEPT ![next_id] = "queued"]
       /\ queue' = Append(queue, next_id)
       /\ next_id' = next_id + 1
       /\ UNCHANGED <<loopVars, callVars, capacity, semaphore, worker_pc, worker_session, error,
                      exc, events, profileVars>>
  ELSE /\ next_id \in Sessions
       /\ sessions' = sessions \cup {next_id}
       /\ status' = [status EXCEPT ![next_id] = "created"]
       /\ platform' = [platform EXCEPT ![next_id] = plat]
       /\ pc' = [pc EXCEPT ![next_id] = "queued"]
       /\ queue' = Append(queue, next_id)
       /\ events' = [events EXCEPT ![next_id] = Append(@, Event("bot_joined", "created"))]
       /\ next_id' = next_id + 1
       /\ UNCHANGED <<loopVars, callVars, capacity, semaphore, worker_pc, worker_session, error, exc,
                      rejected, profileVars>>

\* enqueue_session(meeting_id, platform, meeting_url): _validate_meeting_url
\* raises ValueError before anything else is done; otherwise the session is
\* stored, queued and bot_joined is published
enqueue_session(plat, url) ==
  IF ~ValidMeetingUrl(plat, url)
  THEN /\ rejected < MaxRejected
       /\ rejected' = rejected + 1
       /\ UNCHANGED <<loopVars, callVars, capacity, sessions, next_id, queue, semaphore, worker_pc,
                      worker_session, status, error, platform, pc, exc, events,
                      profileVars>>
  ELSE /\ next_id \in Sessions
       /\ sessions' = sessions \cup {next_id}
       /\ status' = [status EXCEPT ![next_id] = "created"]
       /\ platform' = [platform EXCEPT ![next_id] = plat]
       /\ pc' = [pc EXCEPT ![next_id] = "queued"]
       /\ queue' = Append(queue, next_id)
       /\ events' = [events EXCEPT ![next_id] = Append(@, Event("bot_joined", "created"))]
       /\ next_id' = next_id + 1
       /\ UNCHANGED <<loopVars, callVars, capacity, semaphore, worker_pc, worker_session, error, exc,
                      rejected, profileVars>>

\* _worker that spawns the runner without acquiring a permit
WorkerGet_NoAcquire ==
  /\ worker_pc = "get"
  /\ queue # << >>
  /\ queue' = Tail(queue)
  /\ pc' = [pc EXCEPT ![Head(queue)] = "spawned"]
  /\ UNCHANGED <<loopVars, callVars, capacity, sessions, next_id, semaphore, worker_pc,
                 worker_session, status, error, platform, exc, events,
                 rejected, profileVars>>

\* a worker that takes the session that was put into the queue last
WorkerGet_Lifo ==
  /\ worker_pc = "get"
  /\ queue # << >>
  /\ LET s == queue[Len(queue)] IN
       /\ queue' = SubSeq(queue, 1, Len(queue) - 1)
       /\ IF semaphore > 0
          THEN /\ semaphore' = semaphore - 1
               /\ pc' = [pc EXCEPT ![s] = "spawned"]
               /\ UNCHANGED <<worker_pc, worker_session>>
          ELSE /\ worker_pc' = "acquire"
               /\ worker_session' = s
               /\ pc' = [pc EXCEPT ![s] = "taken"]
               /\ UNCHANGED semaphore
  /\ UNCHANGED <<loopVars, callVars, capacity, sessions, next_id, status, error, platform, exc,
                 events, rejected, profileVars>>

\* _worker: session = await self._queue.get(); then semaphore.acquire(),
\* which does not suspend when a permit is free
WorkerGet ==
  /\ worker_pc = "get"
  /\ queue # << >>
  /\ LET s == Head(queue) IN
       /\ queue' = Tail(queue)
       /\ IF semaphore > 0
          THEN /\ semaphore' = semaphore - 1
               /\ pc' = [pc EXCEPT ![s] = "spawned"]
               /\ UNCHANGED <<worker_pc, worker_session>>
          ELSE /\ worker_pc' = "acquire"
               /\ worker_session' = s
               /\ pc' = [pc EXCEPT ![s] = "taken"]
               /\ UNCHANGED semaphore
  /\ UNCHANGED <<loopVars, callVars, capacity, sessions, next_id, status, error, platform, exc,
                 events, rejected, profileVars>>

\* _worker resumes from semaphore.acquire() and spawns the runner task
WorkerAcquire ==
  /\ worker_pc = "acquire"
  /\ semaphore > 0
  /\ semaphore' = semaphore - 1
  /\ pc' = [pc EXCEPT ![worker_session] = "spawned"]
  /\ worker_pc' = "get"
  /\ worker_session' = 0
  /\ UNCHANGED <<loopVars, callVars, capacity, sessions, next_id, queue, status, error, platform,
                 exc, events, rejected, profileVars>>

\* _run_session_wrapper that releases the permit on the success path only
WrapperFail_NoRelease(s) ==
  /\ status' = [status EXCEPT ![s] = "failed"]
  /\ error' = [error EXCEPT ![s] = "str(exc)"]
  /\ semaphore' = semaphore
  /\ pc' = [pc EXCEPT ![s] = "done"]

\* _run_session_wrapper: except Exception -> failed; finally -> release
WrapperFail(s) ==
  /\ status' = [status EXCEPT ![s] = "failed"]
  /\ error' = [error EXCEPT ![s] = "str(exc)"]
  /\ semaphore' = semaphore + 1
  /\ pc' = [pc EXCEPT ![s] = "done"]

\* _run_session up to its first suspension: status = joining.  The event
\* loop starts the tasks in the order create_task was called for them, which
\* is the order of the session ids
RunSessionStart(s) ==
  /\ pc[s] = "spawned"
  /\ \A t \in Sessions : pc[t] = "spawned" => s <= t
  /\ status' = [status EXCEPT ![s] = "joining"]
  /\ pc' = [pc EXCEPT ![s] = "start"]
  /\ UNCHANGED <<loopVars, callVars, capacity, sessions, next_id, queue, semaphore, worker_pc,
                 worker_session, error, platform, exc, events, rejected,
                 profileVars>>

use_enhanced(s) == platform[s] = "gmeet" /\ google_login_required

\* the browser manager is obtained and the page scope is entered:
\* new_page_for_session allocates a profile and _get_or_create_context
\* creates its directory; PlaywrightManager.new_page allocates nothing
AcquirePage(s) ==
  /\ pc[s] = "start"
  /\ pc' = [pc EXCEPT ![s] = "context"]
  /\ IF use_enhanced(s)
     THEN LET p == allocate_profile(active_sessions, profile_dirs, profile_listed) IN
            /\ active_sessions' = [active_sessions EXCEPT ![s] = p]
            /\ profile_dirs' = profile_dirs \cup {p}
            /\ UNCHANGED profile_listed
     ELSE UNCHANGED profileVars
  /\ UNCHANGED <<loopVars, callVars, capacity, sessions, next_id, queue, semaphore, worker_pc,
                 worker_session, status, error, platform, exc, events, rejected>>

\* a worker that awaits the runner itself: the runner's exception ends the
\* worker loop
StartFails_EndsWorker(s) ==
  /\ pc[s] = "start"
  /\ WrapperFail(s)
  /\ worker_pc' = "dead"
  /\ UNCHANGED <<loopVars, callVars, capacity, sessions, next_id, queue,
                 worker_session, platform, exc, events, rejected, profileVars>>

\* the browser manager cannot be started (or the flow cannot be built):
\* the exception reaches the wrapper before any page scope is entered
StartFails(s) ==
  /\ pc[s] = "start"
  /\ WrapperFail(s)
  /\ UNCHANGED <<loopVars, callVars, capacity, sessions, next_id, queue, worker_pc,
                 worker_session, platform, exc, events, rejected, profileVars>>

\* launch_persistent_context / new_page succeed: the browser has written
\* the profile directory, the page is yielded and join_meeting starts
ContextCreated(s) ==
  /\ pc[s] = "context"
  /\ pc' = [pc EXCEPT ![s] = "join"]
  /\ profile_listed' = IF active_sessions[s] # NoProfile
                       THEN profile_listed \cup {active_sessions[s]}
                       ELSE profile_listed
  /\ UNCHANGED <<loopVars, callVars, capacity, sessions, next_id, queue, semaphore, worker_pc,
                 worker_session, status, error, platform, exc, events, rejected,
                 active_sessions, profile_dirs>>

\* new_page_for_session that releases the profile only where it closes the
\* page, so a failure to create the context or the page keeps the profile
ContextFails_NoRelease(s) ==
  /\ pc[s] = "context"
  /\ WrapperFail(s)
  /\ UNCHANGED <<loopVars, callVars, capacity, sessions, next_id, queue, worker_pc,
                 worker_session, platform, exc, events, rejected,
                 active_sessions, profile_dirs, profile_listed>>

\* creating the context or the page raises: the profile is released by
\* the outer finally and the exception reaches the wrapper
ContextFails(s) ==
  /\ pc[s] = "context"
  /\ active_sessions' = release_profile(active_sessions, s)
  /\ WrapperFail(s)
  /\ UNCHANGED <<loopVars, callVars, capacity, sessions, next_id, queue, worker_pc,
                 worker_session, platform, exc, events, rejected,
                 profile_dirs, profile_listed>>

\* flow.join_meeting returns: status = in_meeting, _run_session_loops
\* creates the audio task and the roster task and wait_for_meeting_end is
\* awaited
JoinSucceeds(s) ==
  /\ pc[s] = "join"
  /\ status' = [status EXCEPT ![s] = "in_meeting"]
  /\ pc' = [pc EXCEPT ![s] = "in_meeting"]
  /\ IF LoopsModelled
     THEN /\ audio_pc' = "created"
          /\ roster_pc' = "created"
          /\ UNCHANGED <<stop_event, audio_capture, chunk_counter, chunk_id,
                         audio_bytes, chunks, detectorVars, participants,
                         participants_again, participants_history>>
     ELSE UNCHANGED loopVars
  /\ UNCHANGED <<callVars, capacity, sessions, next_id, queue, semaphore,
                 worker_pc, worker_session, error, platform, exc, events,
                 rejected, profileVars>>

\* a runner that marks the session in_meeting before join_meeting returns
JoinFails_StatusBeforeJoin(s) ==
  /\ pc[s] = "join"
  /\ status' = [status EXCEPT ![s] = "in_meeting"]
  /\ exc' = [exc EXCEPT ![s] = TRUE]
  /\ pc' = [pc EXCEPT ![s] = "closing"]
  /\ UNCHANGED <<loopVars, callVars, capacity, sessions, next_id, queue, semaphore, worker_pc,
                 worker_session, error, platform, events, rejected,
                 profileVars>>

\* flow.join_meeting raises: the page scope is left through page.close()
JoinFails(s) ==
  /\ pc[s] = "join"
  /\ exc' = [exc EXCEPT ![s] = TRUE]
  /\ pc' = [pc EXCEPT ![s] = "closing"]
  /\ UNCHANGED <<loopVars, callVars, capacity, sessions, next_id, queue, semaphore, worker_pc,
                 worker_session, status, error, platform, events, rejected,
                 profileVars>>

\* wait_for_meeting_end returns (both tasks have started by then, at the
\* runner's first suspension): stop_event.set(), then gather is awaited
MeetingEnds(s) ==
  /\ pc[s] = "in_meeting"
  /\ LoopsModelled => (audio_pc # "created" /\ roster_pc # "created")
  /\ pc' = [pc EXCEPT ![s] = "gather"]
  /\ stop_event' = IF LoopsModelled THEN TRUE ELSE stop_event
  /\ UNCHANGED <<audioVars, detectorVars, rosterVars, callVars, capacity, sessions, next_id, queue, semaphore, worker_pc,
                 worker_session, status, error, platform, exc, events, rejected,
                 profileVars>>

\* wait_for_meeting_end raises before its loop (MeetingEndDetector.__init__
\* cannot create the data directory): the page scope is left
WaitForEndRaises(s) ==
  /\ pc[s] = "in_meeting"
  /\ exc' = [exc EXCEPT ![s] = TRUE]
  /\ pc' = [pc EXCEPT ![s] = "closing"]
  /\ UNCHANGED <<loopVars, callVars, capacity, sessions, next_id, queue, semaphore, worker_pc,
                 worker_session, status, error, platform, events, rejected,
                 profileVars>>

\* a runner that sets status = ended without awaiting the gather of the two
\* tasks
FinishSession_BeforeLoopsExit(s, publish_ok, save_ok) ==
  /\ pc[s] = "gather"
  /\ status' = [status EXCEPT ![s] = "ended"]
  /\ (~publish_ok => save_ok)
  /\ events' = IF publish_ok
               THEN [events EXCEPT ![s] = Append(@, SummaryEvent("ended", chunk_counter, error[s]))]
               ELSE events
  /\ exc' = [exc EXCEPT ![s] = ~publish_ok \/ ~save_ok]
  /\ pc' = [pc EXCEPT ![s] = "closing"]
  /\ UNCHANGED <<loopVars, callVars, capacity, sessions, next_id, queue, semaphore, worker_pc,
                 worker_session, error, platform, rejected, profileVars>>

\* gather returns (both tasks have returned or raised): audio_chunks =
\* chunk_counter, status = ended, the summary is built, published
\* (publish_ok) and saved (save_ok); then the page scope is left
FinishSession(s, publish_ok, save_ok) ==
  /\ pc[s] = "gather"
  /\ LoopsModelled => (audio_pc = "exited" /\ roster_pc \in {"exited", "crashed"})
  /\ status' = [status EXCEPT ![s] = "ended"]
  /\ (~publish_ok => save_ok)
  /\ events' = IF publish_ok
               THEN [events EXCEPT ![s] = Append(@, SummaryEvent("ended", chunk_counter, error[s]))]
               ELSE events
  /\ exc' = [exc EXCEPT ![s] = ~publish_ok \/ ~save_ok]
  /\ pc' = [pc EXCEPT ![s] = "closing"]
  /\ UNCHANGED <<loopVars, callVars, capacity, sessions, next_id, queue, semaphore, worker_pc,
                 worker_session, error, platform, rejected, profileVars>>

\* the wrapper releases the permit in its exception handler instead of in
\* a finally: a runner that returns normally keeps its permit
ClosePage_NoReleaseOnReturn(s, close_ok) ==
  /\ pc[s] = "closing"
  /\ active_sessions' = release_profile(active_sessions, s)
  /\ IF exc[s] \/ ~close_ok
     THEN WrapperFail(s)
     ELSE /\ semaphore' = semaphore
          /\ pc' = [pc EXCEPT ![s] = "done"]
          /\ UNCHANGED <<status, error>>
  /\ UNCHANGED <<loopVars, callVars, capacity, sessions, next_id, queue, worker_pc,
                 worker_session, platform, exc, events, rejected,
                 profile_dirs, profile_listed>>

\* page.close() completes (close_ok) or raises; release_profile runs in the
\* outer finally; the wrapper handles a propagating exception and releases
\* the permit
ClosePage(s, close_ok) ==
  /\ pc[s] = "closing"
  /\ active_sessions' = release_profile(active_sessions, s)
  /\ IF exc[s] \/ ~close_ok
     THEN WrapperFail(s)
     ELSE /\ semaphore' = semaphore + 1
          /\ pc' = [pc EXCEPT ![s] = "done"]
          /\ UNCHANGED <<status, error>>
  /\ UNCHANGED <<loopVars, callVars, capacity, sessions, next_id, queue, worker_pc,
                 worker_session, platform, exc, events, rejected,
                 profile_dirs, profile_listed>>

\* the state after SessionManager() and PersistentProfileManager() are
\* constructed and start() has spawned the worker
Init ==
  /\ capacity = MaxConcurrentSessions
  /\ sessions = {}
  /\ next_id = 1
  /\ queue = << >>
  /\ semaphore = capacity
  /\ worker_pc = "get"
  /\ worker_session = 0
  /\ status = [s \in 1..NumSessions |-> "none"]
  /\ error = [s \in 1..NumSessions |-> "none"]
  /\ platform = [s \in 1..NumSessions |-> "none"]
  /\ pc = [s \in 1..NumSessions |-> "none"]
  /\ exc = [s \in 1..NumSessions |-> FALSE]
  /\ events = [s \in 1..NumSessions |-> << >>]
  /\ rejected = 0
  /\ active_sessions = [s \in 1..NumSessions |-> NoProfile]
  /\ profile_dirs \in {{}, {gmeet_profile_name}}
  /\ profile_listed = profile_dirs
  /\ LoopsIdle
  /\ CallsIdle

\* the steps of the runner task of session s
Runner(s) ==
  \/ RunSessionStart(s)
  \/ AcquirePage(s)
  \/ StartFails(s)
  \/ ContextCreated(s)
  \/ ContextFails(s)
  \/ JoinSucceeds(s)
  \/ JoinFails(s)
  \/ MeetingEnds(s)
  \/ WaitForEndRaises(s)
  \/ \E publish_ok \in BOOLEAN, save_ok \in BOOLEAN : FinishSession(s, publish_ok, save_ok)
  \/ \E close_ok \in BOOLEAN : ClosePage(s, close_ok)

Next ==
  \/ \E plat \in Platforms, url \in Urls : enqueue_session(plat, url)
  \/ WorkerGet
  \/ WorkerAcquire
  \/ \E s \in Sessions : RunSessionStart(s)
  \/ \E s \in Sessions : AcquirePage(s)
  \/ \E s \in Sessions : StartFails(s)
  \/ \E s \in Sessions : ContextCreated(s)
  \/ \E s \in Sessions : ContextFails(s)
  \/ \E s \in Sessions : JoinSucceeds(s)
  \/ \E s \in Sessions : JoinFails(s)
  \/ \E s \in Sessions : MeetingEnds(s)
  \/ \E s \in Sessions : WaitForEndRaises(s)
  \/ \E s \in Sessions, publish_ok \in BOOLEAN, save_ok \in BOOLEAN :
        FinishSession(s, publish_ok, save_ok)
  \/ \E s \in Sessions, close_ok \in BOOLEAN : ClosePage(s, close_ok)

Spec == Init /\ [][Next]_vars

\* the event loop runs every task that is ready, and every awaited browser
\* or meeting operation completes (running sessions terminate)
LiveSpec ==
  /\ Init /\ [][Next]_vars
  /\ WF_vars(WorkerGet)
  /\ WF_vars(WorkerAcquire)
  /\ \A s \in 1..NumSessions : WF_vars(Runner(s))

(***************************************************************************)
(* The runners of NumRunners sessions that were all admitted and           *)
(* dispatched (max_concurrent_sessions >= NumRunners): the state of the    *)
(* scheduler once the worker has spawned every runner.                     *)
(***************************************************************************)
InitDispatched ==
  /\ capacity = NumRunners
  /\ sessions = 1..NumRunners
  /\ next_id = NumRunners + 1
  /\ queue = << >>
  /\ semaphore = 0
  /\ worker_pc = "get"
  /\ worker_session = 0
  /\ status = [s \in 1..NumRunners |-> "created"]
  /\ error = [s \in 1..NumRunners |-> "none"]
  /\ platform \in [1..NumRunners -> Platforms]
  /\ pc = [s \in 1..NumRunners |-> "spawned"]
  /\ exc = [s \in 1..NumRunners |-> FALSE]
  /\ events = [s \in 1..NumRunners |-> <<Event("bot_joined", "created")>>]
  /\ rejected = 0
  /\ active_sessions = [s \in 1..NumRunners |-> NoProfile]
  /\ profile_dirs \in {{}, {gmeet_profile_name}}
  /\ profile_listed = profile_dirs
  /\ LoopsIdle
  /\ CallsIdle

NextRunners ==
  \/ \E s \in Sessions : RunSessionStart(s)
  \/ \E s \in Sessions : AcquirePage(s)
  \/ \E s \in Sessions : StartFails(s)
  \/ \E s \in Sessions : ContextCreated(s)
  \/ \E s \in Sessions : ContextFails(s)
  \/ \E s \in Sessions : JoinSucceeds(s)
  \/ \E s \in Sessions : JoinFails(s)
  \/ \E s \in Sessions : MeetingEnds(s)
  \/ \E s \in Sessions : WaitForEndRaises(s)
  \/ \E s \in Sessions, publish_ok \in BOOLEAN, save_ok \in BOOLEAN :
        FinishSession(s, publish_ok, save_ok)
  \/ \E s \in Sessions, close_ok \in BOOLEAN : ClosePage(s, close_ok)

RunnersSpec == InitDispatched /\ [][NextRunners]_vars

(***************************************************************************)
(* One session in its meeting: the state of the scheduler once the runner  *)
(* of session TheSession has joined (status in_meeting) and                *)
(* _run_session_loops has been entered.                                    *)
(***************************************************************************)
TheSession == 1

InMeeting ==
  /\ capacity = 1
  /\ sessions = {TheSession}
  /\ next_id = TheSession + 1
  /\ queue = << >>
  /\ semaphore = 0
  /\ worker_pc = "get"
  /\ worker_session = 0
  /\ status = [s \in {TheSession} |-> "in_meeting"]
  /\ error = [s \in {TheSession} |-> "none"]
  /\ platform = [s \in {TheSession} |-> "gmeet"]
  /\ pc = [s \in {TheSession} |-> "in_meeting"]
  /\ exc = [s \in {TheSession} |-> FALSE]
  /\ events = [s \in {TheSession} |-> <<Event("bot_joined", "created")>>]
  /\ rejected = 0
  /\ active_sessions = [s \in {TheSession} |-> gmeet_profile_name]
  /\ profile_dirs = {gmeet_profile_name}
  /\ profile_listed = {gmeet_profile_name}

(***************************************************************************)
(* Audio loop (src/src/audio.py, AudioCaptureLoop.run).                    *)
(***************************************************************************)
\* what capture_chunk returns: nothing, a WAV of at least one second, a
\* shorter WAV, or bytes wave.open cannot read
CaptureResults == {"nothing", "valid", "short", "unreadable"}

\* audio_bytes after validation and the silence fallback
AudioAfterFallback(result) ==
  CASE result = "valid" -> "real"
    [] result = "unreadable" -> "unvalidated"
    [] OTHER -> "silence"

ChunkEvent(n) == [type |-> "audio_chunk_created", chunk_id |-> n]

\* the while test of the loop and the head of an iteration, up to the next
\* suspension: chunk_id is formed from the counter; without a capture object
\* the silence fallback is taken at once
IterationBegin(capture) ==
  IF stop_event
  THEN /\ audio_pc' = "exited"
       /\ UNCHANGED <<chunk_id, audio_bytes>>
  ELSE /\ chunk_counter < MaxChunkCounter
       /\ chunk_id' = chunk_counter
       /\ IF capture
          THEN audio_pc' = "capture" /\ audio_bytes' = "none"
          ELSE audio_pc' = "upload" /\ audio_bytes' = "silence"

\* the task starts: AudioCapture.start() succeeds or raises (fallback to
\* silence), then the first iteration begins
AudioStart(start_ok) ==
  /\ audio_pc = "created"
  /\ audio_capture' = start_ok
  /\ IterationBegin(start_ok)
  /\ UNCHANGED <<chunk_counter, chunks, stop_event, detectorVars, rosterVars,
                 schedVars, profileVars, callVars>>

\* capture_chunk returns; the chunk is validated; silence replaces a
\* missing or too short chunk
AudioCapture(result) ==
  /\ audio_pc = "capture"
  /\ audio_bytes' = AudioAfterFallback(result)
  /\ audio_pc' = "upload"
  /\ UNCHANGED <<audio_capture, chunk_counter, chunk_id, chunks, stop_event,
                 detectorVars, rosterVars, schedVars, profileVars, callVars>>

\* the rest of an iteration: upload_bytes_with_retry saves the chunk
\* (upload_ok) or raises; after a save the counter is incremented and
\* audio_chunk_created is published (publish_ok) or publish_event raises;
\* the exception handler only logs; then the counter is incremented again
\* and the loop waits on stop_event for chunk_interval_seconds
AudioUpload(upload_ok, publish_ok) ==
  /\ audio_pc = "upload"
  /\ (~upload_ok => ~publish_ok)
  /\ IF upload_ok
     THEN /\ chunks' = Append(chunks, [chunk_id |-> chunk_id, audio |-> audio_bytes])
          /\ chunk_counter' = (chunk_counter + 1) + 1
          /\ events' = IF publish_ok
                       THEN [events EXCEPT ![TheSession] = Append(@, ChunkEvent(chunk_id))]
                       ELSE events
     ELSE /\ chunk_counter' = chunk_counter + 1
          /\ UNCHANGED <<chunks, events>>
  /\ audio_pc' = "wait"
  /\ UNCHANGED <<audio_capture, chunk_id, audio_bytes, stop_event,
                 detectorVars, rosterVars, schedFixed, profileVars, callVars>>

\* wait_for returns (stop_event set, or the timeout): the while test and
\* the head of the next iteration
AudioResume ==
  /\ audio_pc = "wait"
  /\ IterationBegin(audio_capture)
  /\ UNCHANGED <<audio_capture, chunk_counter, chunks, stop_event,
                 detectorVars, rosterVars, schedVars, profileVars, callVars>>

\* stop_event.set() by the runner after wait_for_meeting_end, or by the
\* roster loop; both run after the audio task has started
SetStopEvent ==
  /\ audio_pc \notin {"none", "created", "exited"}
  /\ ~stop_event
  /\ stop_event' = TRUE
  /\ UNCHANGED <<audioVars, detectorVars, rosterVars, schedVars, profileVars, callVars>>

InitAudio ==
  /\ InMeeting
  /\ CallsIdle
  /\ stop_event = FALSE
  /\ audio_pc = "created"
  /\ audio_capture = FALSE
  /\ chunk_counter = 0
  /\ chunk_id = 0
  /\ audio_bytes = "none"
  /\ chunks = << >>
  /\ detector_pc = "none"
  /\ consecutive_empty_checks = 0
  /\ empty_log = << >>
  /\ end_reason = "none"
  /\ roster_pc = "none"
  /\ participants = << >>
  /\ participants_again = << >>
  /\ participants_history = << >>

NextAudio ==
  \/ \E start_ok \in BOOLEAN : AudioStart(start_ok)
  \/ \E result \in CaptureResults : AudioCapture(result)
  \/ \E upload_ok \in BOOLEAN, publish_ok \in BOOLEAN : AudioUpload(upload_ok, publish_ok)
  \/ AudioResume
  \/ SetStopEvent

AudioSpec == InitAudio /\ [][NextAudio]_vars

(***************************************************************************)
(* End detector (src/src/meeting_end_detector.py,                          *)
(* MeetingEndDetector.wait_for_meeting_end).  The checks catch their own   *)
(* exceptions and return a boolean; page.wait_for_timeout may raise.       *)
(***************************************************************************)
max_empty_checks == 3

\* the test that ends the wait for an empty meeting, with one more empty
\* poll demanded as a confirmation
EmptyLimitReached_Confirm(n) == n >= max_empty_checks + 1

\* consecutive_empty_checks >= max_empty_checks
EmptyLimitReached(n) == n >= max_empty_checks

\* one pass of the loop that keeps the count when the empty check is false
DetectorPoll_NoReset(ended, disconnected, empty) ==
  /\ detector_pc = "poll"
  /\ Len(empty_log) < MaxPolls
  /\ IF ended
     THEN /\ detector_pc' = "returned"
          /\ end_reason' = "ended"
          /\ UNCHANGED <<consecutive_empty_checks, empty_log>>
     ELSE IF disconnected
     THEN /\ detector_pc' = "returned"
          /\ end_reason' = "disconnected"
          /\ UNCHANGED <<consecutive_empty_checks, empty_log>>
     ELSE /\ empty_log' = Append(empty_log, empty)
          /\ IF empty
             THEN /\ consecutive_empty_checks' = consecutive_empty_checks + 1
                  /\ IF EmptyLimitReached(consecutive_empty_checks + 1)
                     THEN detector_pc' = "returned" /\ end_reason' = "empty"
                     ELSE detector_pc' = "sleep" /\ UNCHANGED end_reason
             ELSE /\ consecutive_empty_checks' = consecutive_empty_checks
                  /\ detector_pc' = "sleep"
                  /\ UNCHANGED end_reason
  /\ UNCHANGED <<stop_event, audioVars, rosterVars, schedVars, profileVars, callVars>>

\* one pass of the loop up to its suspension: _check_meeting_ended and
\* _check_disconnected end the wait; _check_meeting_empty counts up, or
\* resets the count; at max_empty_checks the detector takes a screenshot,
\* leaves the meeting and returns
DetectorPoll(ended, disconnected, empty) ==
  /\ detector_pc = "poll"
  /\ Len(empty_log) < MaxPolls
  /\ IF ended
     THEN /\ detector_pc' = "returned"
          /\ end_reason' = "ended"
          /\ UNCHANGED <<consecutive_empty_checks, empty_log>>
     ELSE IF disconnected
     THEN /\ detector_pc' = "returned"
          /\ end_reason' = "disconnected"
          /\ UNCHANGED <<consecutive_empty_checks, empty_log>>
     ELSE /\ empty_log' = Append(empty_log, empty)
          /\ IF empty
             THEN /\ consecutive_empty_checks' = consecutive_empty_checks + 1
                  /\ IF EmptyLimitReached(consecutive_empty_checks + 1)
                     THEN detector_pc' = "returned" /\ end_reason' = "empty"
                     ELSE detector_pc' = "sleep" /\ UNCHANGED end_reason
             ELSE /\ consecutive_empty_checks' = 0
                  /\ detector_pc' = "sleep"
                  /\ UNCHANGED end_reason
  /\ UNCHANGED <<stop_event, audioVars, rosterVars, schedVars, profileVars, callVars>>

\* page.wait_for_timeout(5000) returns (ok), or raises: the handler takes a
\* screenshot and sleeps; the count is a local that the handler leaves alone
DetectorWake(ok) ==
  /\ detector_pc = "sleep"
  /\ detector_pc' = IF ok THEN "poll" ELSE "recover"
  /\ UNCHANGED <<consecutive_empty_checks, empty_log, end_reason, stop_event,
                 audioVars, rosterVars, schedVars, profileVars, callVars>>

\* asyncio.sleep(5) of the exception handler returns
DetectorRecovered ==
  /\ detector_pc = "recover"
  /\ detector_pc' = "poll"
  /\ UNCHANGED <<consecutive_empty_checks, empty_log, end_reason, stop_event,
                 audioVars, rosterVars, schedVars, profileVars, callVars>>

InitDetector ==
  /\ InMeeting
  /\ CallsIdle
  /\ stop_event = FALSE
  /\ audio_pc = "none"
  /\ audio_capture = FALSE
  /\ chunk_counter = 0
  /\ chunk_id = 0
  /\ audio_bytes = "none"
  /\ chunks = << >>
  /\ detector_pc = "poll"
  /\ consecutive_empty_checks = 0
  /\ empty_log = << >>
  /\ end_reason = "none"
  /\ roster_pc = "none"
  /\ participants = << >>
  /\ participants_again = << >>
  /\ participants_history = << >>

NextDetector ==
  \/ \E ended \in BOOLEAN, disconnected \in BOOLEAN, empty \in BOOLEAN :
        DetectorPoll(ended, disconnected, empty)
  \/ \E ok \in BOOLEAN : DetectorWake(ok)
  \/ DetectorRecovered

DetectorSpec == InitDetector /\ [][NextDetector]_vars

(***************************************************************************)
(* Roster loop (src/src/session_manager.py, participants_loop).  A name is *)
(* a sequence of characters; a roster row carries the keys name, is_bot    *)
(* and original_name; a roster snapshot is a sequence of rows.             *)
(***************************************************************************)
\* settings.bot_display_name
bot_display_name == <<"M","e","e","t","i","n","g"," ","B","o","t">>

\* str.lower()
Lower(str) == [i \in 1..Len(str) |-> LowerChar(str[i])]

\* sub in str
Contains(sub, str) ==
  \E i \in 0..(Len(str) - Len(sub)) : SubSeq(str, i + 1, i + Len(sub)) = sub

\* str.strip()
RECURSIVE Strip(_)
Strip(str) ==
  IF str = << >> THEN str
  ELSE IF Head(str) = " " THEN Strip(Tail(str))
  ELSE IF str[Len(str)] = " " THEN Strip(SubSeq(str, 1, Len(str) - 1))
  ELSE str

YouUpper == <<"(","Y","o","u",")">>
YouLower == <<"(","y","o","u",")">>

\* the ui_patterns of the confirmation extraction
ui_patterns ==
  { <<"s","e","t","t","i","n","g","s">>,
    <<"m","o","r","e"," ","o","p","t","i","o","n","s">>,
    <<"y","o","u","r"," ","c","a","m","e","r","a"," ","i","s"," ","o","f","f">>,
    <<"y","o","u","r"," ","m","i","c","r","o","p","h","o","n","e"," ","i","s"," ","o","f","f">>,
    <<"y","o","u"," ","c","a","n","'","t"," ","u","n","m","u","t","e">>,
    <<"b","a","c","k","g","r","o","u","n","d","s"," ","a","n","d"," ","e","f","f","e","c","t","s">> }

Row(name, is_bot, original_name) ==
  [name |-> name, is_bot |-> is_bot, original_name |-> original_name]

\* the rows a page shows in the model: a person, the bot as the robust
\* extractor reports it, a row whose name kept its "(You)" label, a row
\* whose name is blank, and a label of the user interface
RowPerson == Row(<<"A","l">>, FALSE, <<"A","l">>)
RowBot == Row(bot_display_name, TRUE, bot_display_name \o <<" ">> \o YouUpper)
RowYou == Row(<<"A","l"," ">> \o YouUpper, FALSE, <<"A","l"," ">> \o YouUpper)
RowBlank == Row(<<" ">>, FALSE, <<" ">>)
RowLabel == Row(<<"S","e","t","t","i","n","g","s">>, FALSE, <<"S","e","t","t","i","n","g","s">>)
Rows == {RowPerson, RowBot, RowYou, RowBlank, RowLabel}

\* the snapshots read_participants returns in the model
Snapshots == UNION {[1..n -> Rows] : n \in 0..MaxRows}

\* the bot test of the poll: the is_bot key, "(you)" in the lowered
\* original name, or the name equal to the bot's display name
IsBotRow(p) ==
  \/ p.is_bot
  \/ Contains(YouLower, Lower(p.original_name))
  \/ Lower(Strip(p.name)) = Lower(bot_display_name)

\* real_participants of the poll: named rows that are not the bot
real_participants(ps) ==
  SelectSeq(ps, LAMBDA p : Strip(p.name) # << >> /\ ~IsBotRow(p))

\* should_leave of the poll: "stay", "leave", or "NameError" where the code
\* calls clean_participant_name, a name the module never imports
should_leave(ps) ==
  IF Len(ps) > 1 THEN "stay"
  ELSE IF Len(real_participants(ps)) > 0 THEN "stay"
  ELSE IF Len(ps) = 1
       THEN IF Contains(YouUpper, Strip(ps[1].name)) THEN "leave" ELSE "NameError"
       ELSE "leave"

\* the immediate re-extraction: some row is counted as real (its name has
\* no "(You)") or there is more than one row
recheck_finds_someone(ps) ==
  \/ Len(ps) > 1
  \/ \E i \in 1..Len(ps) : ~Contains(YouUpper, ps[i].name)

\* real_participants_again: named rows without "(You)" that match no
\* ui_pattern
real_participants_again(ps) ==
  SelectSeq(ps, LAMBDA p :
    /\ Strip(p.name) # << >>
    /\ ~Contains(YouUpper, Strip(p.name))
    /\ \A pattern \in ui_patterns : ~Contains(pattern, Lower(Strip(p.name))))

\* final_should_leave of the confirmation: "stay", "leave" or "NameError"
final_should_leave(ps) ==
  IF Len(ps) = 1 /\ ~Contains(YouUpper, Strip(ps[1].name)) THEN "NameError"
  ELSE IF /\ Len(ps) <= 1
          /\ Len(real_participants_again(ps)) = 0
          /\ (Len(ps) = 0 \/ (Len(ps) = 1 /\ Contains(YouUpper, Strip(ps[1].name))))
       THEN "leave"
       ELSE "stay"

\* participants_history after one entry is marked as joined (or rejoined)
\* at time now: a new name gets join_time = now; a known name keeps its
\* join_time; leave_time is None (0) in both cases
MarkJoin(history, p, now) ==
  LET name == Strip(p.name)
  IN IF name = << >> THEN history
     ELSE IF name \in DOMAIN history
          THEN [history EXCEPT ![name] =
                  [original_name |-> p.original_name, is_bot |-> p.is_bot,
                   join_time |-> history[name].join_time, leave_time |-> 0]]
          ELSE history @@
                 (name :> [original_name |-> p.original_name, is_bot |-> p.is_bot,
                           join_time |-> now, leave_time |-> 0])

RECURSIVE MarkJoins(_, _, _)
MarkJoins(history, ps, now) ==
  IF ps = << >> THEN history
  ELSE MarkJoins(MarkJoin(history, Head(ps), now), Tail(ps), now)

\* UpdateHistory that stamps every absent name, whether or not it has a
\* leave_time already
UpdateHistory_Overwrite(history, ps, now) ==
  LET joined == MarkJoins(history, ps, now)
      current_names == {ps[i].name : i \in 1..Len(ps)} \ {<< >>}
  IN [name \in DOMAIN joined |->
        IF name \notin current_names
        THEN [joined[name] EXCEPT !.leave_time = now]
        ELSE joined[name]]

\* the join/leave update of participants_history: joins are keyed by the
\* stripped name, leaves are marked for keys that are not among the names
\* of the snapshot and have no leave_time yet
UpdateHistory(history, ps, now) ==
  LET joined == MarkJoins(history, ps, now)
      current_names == {ps[i].name : i \in 1..Len(ps)} \ {<< >>}
  IN [name \in DOMAIN joined |->
        IF name \notin current_names /\ joined[name].leave_time = 0
        THEN [joined[name] EXCEPT !.leave_time = now]
        ELSE joined[name]]

\* now_iso of the one update a roster loop makes before it raises
FirstUpdateTime == 1

\* the rest of an iteration after the empty-meeting decision: the history
\* is updated, then the arguments of the participant_update event are
\* built, which raises NameError (other_participants is not defined)
RosterFallThrough(ps) ==
  /\ participants_history' = UpdateHistory(participants_history, ps, FirstUpdateTime)
  /\ roster_pc' = "crashed"

\* the task starts: the while test, then read_participants is awaited
RosterStart ==
  /\ roster_pc = "created"
  /\ roster_pc' = IF stop_event THEN "exited" ELSE "read"
  /\ UNCHANGED <<participants, participants_again, participants_history,
                 stop_event, audioVars, detectorVars, schedVars, profileVars, callVars>>

\* read_participants returns ps: the rows are split, should_leave is
\* decided; on leave the immediate re-extraction is awaited
RosterRead(ps) ==
  /\ roster_pc = "read"
  /\ participants' = ps
  /\ CASE should_leave(ps) = "leave" ->
            roster_pc' = "recheck" /\ UNCHANGED participants_history
       [] should_leave(ps) = "NameError" ->
            roster_pc' = "crashed" /\ UNCHANGED participants_history
       [] OTHER -> RosterFallThrough(ps)
  /\ UNCHANGED <<participants_again, stop_event, audioVars, detectorVars,
                 schedVars, profileVars, callVars>>

\* the immediate re-extraction returns ps: if it finds someone the
\* iteration goes on without leaving, else asyncio.sleep(15) is awaited
RosterRecheck(ps) ==
  /\ roster_pc = "recheck"
  /\ IF recheck_finds_someone(ps)
     THEN RosterFallThrough(participants)
     ELSE roster_pc' = "sleep" /\ UNCHANGED participants_history
  /\ UNCHANGED <<participants, participants_again, stop_event, audioVars,
                 detectorVars, schedVars, profileVars, callVars>>

\* asyncio.sleep(15) returns and the confirmation extraction is awaited
RosterSleepDone ==
  /\ roster_pc = "sleep"
  /\ roster_pc' = "confirm"
  /\ UNCHANGED <<participants, participants_again, participants_history,
                 stop_event, audioVars, detectorVars, schedVars, profileVars, callVars>>

\* the confirmation extraction returns ps: final_should_leave is decided;
\* on leave leave_meeting_cleanly is awaited
RosterConfirm(ps) ==
  /\ roster_pc = "confirm"
  /\ participants_again' = ps
  /\ CASE final_should_leave(ps) = "leave" ->
            roster_pc' = "leaving" /\ UNCHANGED participants_history
       [] final_should_leave(ps) = "NameError" ->
            roster_pc' = "crashed" /\ UNCHANGED participants_history
       [] OTHER -> RosterFallThrough(participants)
  /\ UNCHANGED <<participants, stop_event, audioVars, detectorVars,
                 schedVars, profileVars, callVars>>

\* leave_meeting_cleanly returns (its failure is only logged):
\* stop_event.set() and the loop is left
RosterLeave ==
  /\ roster_pc = "leaving"
  /\ stop_event' = TRUE
  /\ roster_pc' = "exited"
  /\ UNCHANGED <<participants, participants_again, participants_history,
                 audioVars, detectorVars, schedVars, profileVars, callVars>>

InitRoster ==
  /\ InMeeting
  /\ CallsIdle
  /\ stop_event = FALSE
  /\ audio_pc = "none"
  /\ audio_capture = FALSE
  /\ chunk_counter = 0
  /\ chunk_id = 0
  /\ audio_bytes = "none"
  /\ chunks = << >>
  /\ detector_pc = "none"
  /\ consecutive_empty_checks = 0
  /\ empty_log = << >>
  /\ end_reason = "none"
  /\ roster_pc = "created"
  /\ participants = << >>
  /\ participants_again = << >>
  /\ participants_history = << >>

NextRoster ==
  \/ RosterStart
  \/ \E ps \in Snapshots : RosterRead(ps)
  \/ \E ps \in Snapshots : RosterRecheck(ps)
  \/ RosterSleepDone
  \/ \E ps \in Snapshots : RosterConfirm(ps)
  \/ RosterLeave

RosterSpec == InitRoster /\ [][NextRoster]_vars

(***************************************************************************)
(* Name filter (src/src/participant_name_filter.py).  None is the empty    *)
(* sequence: the callers test the result with "not".                       *)
(***************************************************************************)
Letters ==
  {"a","b","c","d","e","f","g","h","i","j","k","l","m",
   "n","o","p","q","r","s","t","u","v","w","x","y","z"}
Digits == {"0","1","2","3","4","5","6","7","8","9"}

\* c.isalpha(), for the letters LowerChar knows
IsAlpha(c) == LowerChar(c) \in Letters

\* str.isupper(): some cased character and no lower-case one
IsUpper(str) ==
  /\ \E i \in 1..Len(str) : LowerChar(str[i]) # str[i]
  /\ \A i \in 1..Len(str) : str[i] \notin Letters

\* str.startswith(prefix), str.endswith(suffix)
StartsWith(prefix, str) ==
  Len(str) >= Len(prefix) /\ SubSeq(str, 1, Len(prefix)) = prefix
EndsWith(suffix, str) ==
  Len(str) >= Len(suffix) /\ SubSeq(str, Len(str) - Len(suffix) + 1, Len(str)) = suffix

\* str.count(c) and len(str.split())
Count(c, str) == Cardinality({i \in 1..Len(str) : str[i] = c})
Words(str) ==
  Cardinality({i \in 1..Len(str) : str[i] # " " /\ (i = 1 \/ str[i - 1] = " ")})

UI_NOTIFICATION_BLACKLIST ==
  { <<"b","a","c","k","g","r","o","u","n","d","s"," ","a","n","d"," ","e","f","f","e","c","t","s">>,
    <<"y","o","u"," ","c","a","n","'","t"," ","u","n","m","u","t","e"," ","s","o","m","e","o","n","e"," ","e","l","s","e">>,
    <<"y","o","u","r"," ","m","i","c","r","o","p","h","o","n","e"," ","i","s"," ","o","f","f",".">>,
    <<"y","o","u","r"," ","m","i","c","r","o","p","h","o","n","e"," ","i","s"," ","o","f","f">>,
    <<"y","o","u"," ","c","a","n","'","t"," ","r","e","m","o","t","e","l","y"," ","m","u","t","e">>,
    <<"v","i","s","u","a","l"," ","e","f","f","e","c","t","s">>,
    <<"a","p","p","l","y"," ","v","i","s","u","a","l"," ","e","f","f","e","c","t","s">>,
    <<"b","a","c","k","g","r","o","u","n","d"," ","b","l","u","r">>,
    <<"b","l","u","r"," ","b","a","c","k","g","r","o","u","n","d">>,
    <<"c","h","a","n","g","e"," ","b","a","c","k","g","r","o","u","n","d">>,
    <<"y","o","u","r"," ","c","a","m","e","r","a"," ","i","s"," ","o","f","f">>,
    <<"m","i","c","r","o","p","h","o","n","e"," ","i","s"," ","o","f","f">>,
    <<"c","a","m","e","r","a"," ","i","s"," ","o","f","f">>,
    <<"m","i","c","r","o","p","h","o","n","e"," ","i","s"," ","o","n">>,
    <<"c","a","m","e","r","a"," ","i","s"," ","o","n">>,
    <<"m","i","c"," ","i","s"," ","o","f","f">>,
    <<"m","i","c"," ","i","s"," ","o","n">>,
    <<"c","a","n","'","t"," ","r","e","m","o","t","e","l","y"," ","m","u","t","e">>,
    <<"c","a","n","'","t"," ","u","n","m","u","t","e">>,
    <<"r","e","m","o","t","e","l","y"," ","m","u","t","e">>,
    <<"'","s"," ","m","i","c","r","o","p","h","o","n","e">>,
    <<"t","u","r","n"," ","o","n"," ","m","i","c","r","o","p","h","o","n","e">>,
    <<"t","u","r","n"," ","o","f","f"," ","m","i","c","r","o","p","h","o","n","e">>,
    <<"t","u","r","n"," ","o","n"," ","c","a","m","e","r","a">>,
    <<"t","u","r","n"," ","o","f","f"," ","c","a","m","e","r","a">>,
    <<"m","u","t","e"," ","m","i","c","r","o","p","h","o","n","e">>,
    <<"u","n","m","u","t","e"," ","m","i","c","r","o","p","h","o","n","e">>,
    <<"p","r","e","s","e","n","t"," ","n","o","w">>,
    <<"s","t","o","p"," ","p","r","e","s","e","n","t","i","n","g">>,
    <<"s","h","a","r","e"," ","s","c","r","e","e","n">>,
    <<"s","t","o","p"," ","s","h","a","r","i","n","g">>,
    <<"r","a","i","s","e"," ","h","a","n","d">>,
    <<"l","o","w","e","r"," ","h","a","n","d">>,
    <<"e","n","d"," ","c","a","l","l">>,
    <<"l","e","a","v","e"," ","c","a","l","l">>,
    <<"l","e","a","v","e"," ","m","e","e","t","i","n","g">>,
    <<"e","n","d"," ","m","e","e","t","i","n","g">>,
    <<"i","n"," ","t","h","e"," ","m","e","e","t","i","n","g">>,
    <<"c","o","n","t","r","i","b","u","t","o","r","s">>,
    <<"a","d","d"," ","p","e","o","p","l","e">>,
    <<"s","e","a","r","c","h"," ","f","o","r"," ","p","e","o","p","l","e">>,
    <<"i","n","v","i","t","e">>,
    <<"s","h","a","r","e"," ","l","i","n","k">>,
    <<"h","o","s","t"," ","c","o","n","t","r","o","l","s">>,
    <<"m","e","e","t","i","n","g"," ","d","e","t","a","i","l","s">>,
    <<"o","t","h","e","r"," ","p","e","o","p","l","e">>,
    <<"i","n"," ","t","h","i","s"," ","c","a","l","l">>,
    <<"p","e","o","p","l","e"," ","i","n"," ","t","h","i","s"," ","c","a","l","l">>,
    <<"y","o","u","'","r","e"," ","t","h","e"," ","o","n","l","y"," ","o","n","e">>,
    <<"w","a","i","t","i","n","g"," ","f","o","r"," ","o","t","h","e","r","s">>,
    <<"c","o","n","n","e","c","t","i","n","g">>,
    <<"r","e","c","o","n","n","e","c","t","i","n","g">>,
    <<"j","o","i","n","i","n","g">>,
    <<"l","o","a","d","i","n","g">>,
    <<"s","e","t","t","i","n","g","s">>,
    <<"o","p","t","i","o","n","s">>,
    <<"m","o","r","e"," ","o","p","t","i","o","n","s">>,
    <<"m","o","r","e"," ","a","c","t","i","o","n","s">>,
    <<"s","e","n","d"," ","a"," ","m","e","s","s","a","g","e">>,
    <<"c","h","a","t">>,
    <<"a","c","t","i","v","i","t","i","e","s">>,
    <<"c","a","p","t","i","o","n","s">>,
    <<"s","u","b","t","i","t","l","e","s">>,
    <<"r","e","c","o","r","d","i","n","g">>,
    <<"b","r","e","a","k","o","u","t"," ","r","o","o","m","s">>,
    <<"l","a","y","o","u","t">>,
    <<"t","i","l","e","d">>,
    <<"s","p","o","t","l","i","g","h","t">>,
    <<"s","i","d","e","b","a","r">>,
    <<"a","u","t","o">>,
    <<"a","l","l","o","w">>,
    <<"d","e","n","y">>,
    <<"g","r","a","n","t">>,
    <<"p","e","r","m","i","s","s","i","o","n">>,
    <<"a","c","c","e","s","s">>,
    <<"e","n","a","b","l","e">>,
    <<"d","i","s","a","b","l","e">>,
    <<"d","e","n","i","e","d">>,
    <<"b","l","o","c","k","e","d">>,
    <<"t","u","r","n"," ","o","n">>,
    <<"t","u","r","n"," ","o","f","f">>,
    <<"m","u","t","e">>,
    <<"u","n","m","u","t","e">>,
    <<"j","o","i","n"," ","n","o","w">>,
    <<"a","s","k"," ","t","o"," ","j","o","i","n">>,
    <<"p","r","e","s","e","n","t">> }

\* is_valid_participant_name that tests the blacklist for equality only
is_valid_participant_name_ExactOnly(name) ==
  LET name_lower == Lower(Strip(name))
  IN /\ name # << >>
     /\ name_lower # << >>
     /\ name_lower \notin UI_NOTIFICATION_BLACKLIST
     /\ Len(name_lower) >= 2
     /\ \E i \in 1..Len(name) : IsAlpha(name[i])

\* is_valid_participant_name(name)
is_valid_participant_name(name) ==
  LET name_lower == Lower(Strip(name))
  IN /\ name # << >>
     /\ name_lower # << >>
     /\ \A blacklisted \in UI_NOTIFICATION_BLACKLIST : ~Contains(blacklisted, name_lower)
     /\ ~StartsWith(<<"y","o","u","r"," ">>, name_lower)
     /\ ~StartsWith(<<"y","o","u"," ">>, name_lower)
     /\ ~Contains(<<"c","a","n","'","t">>, name_lower)
     /\ ~Contains(<<"c","a","n","n","o","t">>, name_lower)
     /\ ~Contains(<<"'","s"," ","m","i","c","r","o","p","h","o","n","e">>, name_lower)
     /\ ~Contains(<<"'","s"," ","c","a","m","e","r","a">>, name_lower)
     /\ ~(Count(".", name) > 1 /\ Words(name) > 4)
     /\ ~(EndsWith(<<".">>, name_lower) /\ Words(name) > 4)
     /\ Len(name_lower) >= 2
     /\ Len(name) <= 100
     /\ \E i \in 1..Len(name) : IsAlpha(name[i])
     /\ ~(IsUpper(name) /\ \E i \in 1..Len(name) : name[i] \in Digits)

\* clean_participant_name(name): the stripped name without a trailing
\* " (You)", or None when that is not a valid participant name
clean_participant_name(name) ==
  LET stripped == Strip(name)
      cleaned == IF EndsWith(<<" ">> \o YouUpper, stripped)
                 THEN Strip(SubSeq(stripped, 1, Len(stripped) - 6))
                 ELSE stripped
  IN IF name = << >> THEN << >>
     ELSE IF is_valid_participant_name(cleaned) THEN cleaned
     ELSE << >>

(***************************************************************************)
(* Summary builder (src/src/meeting_summary_builder.py,                    *)
(* MeetingSummaryBuilder.build_summary).  participants_history maps a name *)
(* to its row; the participants of a summary map each kept name to its     *)
(* record.                                                                 *)
(***************************************************************************)
\* bot_identifiers: the settings have bot_display_name and no
\* bot_google_profile_name
bot_identifiers == {Lower(Strip(bot_display_name))}

\* Check 5: the partial match of a name with a bot identifier
partial_match(name_lower) ==
  \E identifier \in bot_identifiers :
    /\ Len(identifier) >= 3
    /\ Contains(identifier, name_lower) \/ Contains(name_lower, identifier)
    /\ \/ 2 * Len(identifier) >= Len(name_lower)
       \/ 2 * Len(name_lower) >= Len(identifier)

\* is_bot of a history row: the is_bot key, "(you)" in the lowered
\* original name, an exact or a partial match with a bot identifier (the
\* session data carry no bot_name_detected)
summary_is_bot(name, data) ==
  \/ data.is_bot
  \/ Contains(YouLower, Lower(data.original_name))
  \/ Lower(name) \in bot_identifiers
  \/ partial_match(Lower(name))

\* re.sub(r'\s*\(you\)$', '', original_name, flags=re.IGNORECASE).strip()
temp_name(original_name) ==
  IF EndsWith(YouLower, Lower(original_name))
  THEN Strip(SubSeq(original_name, 1, Len(original_name) - Len(YouLower)))
  ELSE Strip(original_name)

\* cleaned_name of a history row: the cleaned display name, else the
\* cleaned original name, else None
cleaned_name(name, data) ==
  IF clean_participant_name(name) # << >>
  THEN clean_participant_name(name)
  ELSE clean_participant_name(temp_name(data.original_name))

\* the row passes both "continue" statements of the loop
row_kept(name, data) ==
  /\ cleaned_name(name, data) # << >>
  /\ summary_is_bot(name, data) \/ is_valid_participant_name(cleaned_name(name, data))

participant_record(name, data) ==
  [name |-> cleaned_name(name, data),
   original_name |-> data.original_name,
   is_bot |-> summary_is_bot(name, data)]

build_summary(history, audio_chunks) ==
  LET kept == {name \in DOMAIN history : row_kept(name, history[name])}
      all_participants == [name \in kept |-> participant_record(name, history[name])]
      real == {name \in kept : ~all_participants[name].is_bot}
  IN [participants |-> all_participants,
      real_participants |-> [name \in real |-> all_participants[name]],
      unique_participants |-> Cardinality({all_participants[name].name : name \in real}),
      audio_chunks |-> validated_audio_chunks(audio_chunks),
      audio_duration_seconds |-> audio_duration_seconds(audio_chunks)]

\* the intervals an AudioCaptureLoop is constructed with in the model
Intervals == {10, 30, 60}

\* the bot as the robust extractor reports it when it is signed in to a
\* Google profile: the label is cut from the name and is_bot is set
RowSelf == Row(<<"L","e","a">>, TRUE, <<"L","e","a"," ">> \o YouLower)
\* the bot's own row while its name reads as a text of the user interface
RowLoading ==
  Row(<<"L","o","a","d","i","n","g">>, TRUE, <<"L","o","a","d","i","n","g"," ">> \o YouUpper)
HistoryRows == Rows \cup {RowSelf, RowLoading}

\* the histories the roster loop leaves after one update
Histories ==
  {UpdateHistory(<< >>, ps, FirstUpdateTime) : ps \in UNION {[1..n -> HistoryRows] : n \in 0..MaxRows}}

\* the loops of the session are over and its status is ended:
\* build_summary is called with the history of the roster loop and the
\* counter of the audio loop
InitSummary ==
  /\ capacity = 1
  /\ sessions = {TheSession}
  /\ next_id = TheSession + 1
  /\ queue = << >>
  /\ semaphore = 0
  /\ worker_pc = "get"
  /\ worker_session = 0
  /\ status = [s \in {TheSession} |-> "ended"]
  /\ error = [s \in {TheSession} |-> "none"]
  /\ platform = [s \in {TheSession} |-> "gmeet"]
  /\ pc = [s \in {TheSession} |-> "in_meeting"]
  /\ exc = [s \in {TheSession} |-> FALSE]
  /\ events = [s \in {TheSession} |-> <<Event("bot_joined", "created")>>]
  /\ rejected = 0
  /\ active_sessions = [s \in {TheSession} |-> gmeet_profile_name]
  /\ profile_dirs = {gmeet_profile_name}
  /\ profile_listed = {gmeet_profile_name}
  /\ chunk_interval_seconds \in Intervals
  /\ page = NoPage
  /\ summary = NoSummary
  /\ FlowIdle
  /\ stop_event = TRUE
  /\ audio_pc = "exited"
  /\ audio_capture = FALSE
  /\ chunk_counter \in 0..MaxChunkCounter
  /\ chunk_id = 0
  /\ audio_bytes = "none"
  /\ chunks = << >>
  /\ detector_pc = "none"
  /\ consecutive_empty_checks = 0
  /\ empty_log = << >>
  /\ end_reason = "none"
  /\ roster_pc = "exited"
  /\ participants = << >>
  /\ participants_again = << >>
  /\ participants_history \in Histories

BuildSummary ==
  /\ audio_pc = "exited"
  /\ roster_pc = "exited"
  /\ summary = NoSummary
  /\ summary' = build_summary(participants_history, chunk_counter)
  /\ UNCHANGED <<chunk_interval_seconds, page, flowVars, schedVars, profileVars, loopVars>>

NextSummary == BuildSummary

SummarySpec == InitSummary /\ [][NextSummary]_vars

(***************************************************************************)
(* The Google Meet empty check of the end detector                         *)
(* (src/src/meeting_end_detector.py, _check_gmeet_empty).  A page is the    *)
(* count its participant badge shows, the rows the extractor returns and   *)
(* whether reading it raises.                                              *)
(***************************************************************************)
\* is_bot of the detector's split: "(You)" in the stripped name, or the
\* lowered name equal to "meeting bot"
detector_is_bot(p) ==
  \/ Contains(YouUpper, Strip(p.name))
  \/ Lower(Strip(p.name)) = <<"m","e","e","t","i","n","g"," ","b","o","t">>

\* real_participants of the detector: named rows that are not is_bot
detector_real_participants(rows) ==
  SelectSeq(rows, LAMBDA p : Strip(p.name) # << >> /\ ~detector_is_bot(p))

\* remaining_is_bot: the single row has "(You)" in its name or its cleaned
\* name is the bot's display name
remaining_is_bot(rows) ==
  /\ Len(rows) = 1
  /\ LET remaining_name == Strip(rows[1].name)
     IN \/ Contains(YouUpper, remaining_name)
        \/ /\ clean_participant_name(remaining_name) # << >>
           /\ Lower(clean_participant_name(remaining_name)) = Lower(bot_display_name)

\* the value _check_gmeet_empty returns: False when a read of the page
\* raises (the except clause), else the value of the checks
check_gmeet_empty(pg) ==
  LET badge_count == pg.badge_count
      total == Len(pg.rows)
      num_real == Len(detector_real_participants(pg.rows))
  IN IF pg.raises THEN FALSE
     ELSE IF badge_count > 1 THEN FALSE
     ELSE IF badge_count > 0 /\ total = 0 THEN FALSE
     ELSE IF total > 1 THEN FALSE
     ELSE IF num_real > 0 THEN FALSE
     ELSE /\ num_real = 0
          /\ total = 0 \/ (total = 1 /\ remaining_is_bot(pg.rows))
          /\ badge_count <= 1

\* the pages of the model
PageRows == Rows \cup {RowSelf}
Pages ==
  [badge_count : 0..MaxBadge,
   rows : UNION {[1..n -> PageRows] : n \in 0..MaxRows},
   raises : BOOLEAN]

\* the detector is about to run the empty check of a poll on a page
InitEmptyCheck ==
  /\ InMeeting
  /\ chunk_interval_seconds = 30
  /\ page \in Pages
  /\ summary = NoSummary
  /\ FlowIdle
  /\ stop_event = FALSE
  /\ audio_pc = "none"
  /\ audio_capture = FALSE
  /\ chunk_counter = 0
  /\ chunk_id = 0
  /\ audio_bytes = "none"
  /\ chunks = << >>
  /\ detector_pc = "poll"
  /\ consecutive_empty_checks = 0
  /\ empty_log = << >>
  /\ end_reason = "none"
  /\ roster_pc = "none"
  /\ participants = << >>
  /\ participants_again = << >>
  /\ participants_history = << >>

\* the poll runs _check_gmeet_empty(page) and logs its result
CheckGmeetEmpty ==
  /\ detector_pc = "poll"
  /\ empty_log = << >>
  /\ empty_log' = <<check_gmeet_empty(page)>>
  /\ detector_pc' = "sleep"
  /\ UNCHANGED <<consecutive_empty_checks, end_reason, stop_event, audioVars,
                 rosterVars, schedVars, profileVars, callVars>>

NextEmptyCheck == CheckGmeetEmpty

EmptyCheckSpec == InitEmptyCheck /\ [][NextEmptyCheck]_vars

(***************************************************************************)
(* One session from the start of its runner to its exit, with its audio    *)
(* task and its roster task modelled step by step (the end detector is the *)
(* single step MeetingEnds).                                               *)
(***************************************************************************)
InitSession ==
  /\ capacity = 1
  /\ sessions = {TheSession}
  /\ next_id = TheSession + 1
  /\ queue = << >>
  /\ semaphore = 0
  /\ worker_pc = "get"
  /\ worker_session = 0
  /\ status = [s \in {TheSession} |-> "created"]
  /\ error = [s \in {TheSession} |-> "none"]
  /\ platform \in [{TheSession} -> Platforms]
  /\ pc = [s \in {TheSession} |-> "spawned"]
  /\ exc = [s \in {TheSession} |-> FALSE]
  /\ events = [s \in {TheSession} |-> <<Event("bot_joined", "created")>>]
  /\ rejected = 0
  /\ active_sessions = [s \in {TheSession} |-> NoProfile]
  /\ profile_dirs = {gmeet_profile_name}
  /\ profile_listed = profile_dirs
  /\ CallsIdle
  /\ stop_event = FALSE
  /\ audio_pc = "idle"
  /\ audio_capture = FALSE
  /\ chunk_counter = 0
  /\ chunk_id = 0
  /\ audio_bytes = "none"
  /\ chunks = << >>
  /\ detector_pc = "none"
  /\ consecutive_empty_checks = 0
  /\ empty_log = << >>
  /\ end_reason = "none"
  /\ roster_pc = "idle"
  /\ participants = << >>
  /\ participants_again = << >>
  /\ participants_history = << >>

\* the snapshots read_participants returns in a whole-session run
SessionSnapshots == UNION {[1..n -> Rows] : n \in 0..MaxSessionRows}

NextSession ==
  \/ \E s \in Sessions : RunSessionStart(s)
  \/ \E s \in Sessions : AcquirePage(s)
  \/ \E s \in Sessions : StartFails(s)
  \/ \E s \in Sessions : ContextCreated(s)
  \/ \E s \in Sessions : ContextFails(s)
  \/ \E s \in Sessions : JoinSucceeds(s)
  \/ \E s \in Sessions : JoinFails(s)
  \/ \E s \in Sessions : MeetingEnds(s)
  \/ \E s \in Sessions : WaitForEndRaises(s)
  \/ \E s \in Sessions, publish_ok \in BOOLEAN, save_ok \in BOOLEAN :
        FinishSession(s, publish_ok, save_ok)
  \/ \E s \in Sessions, close_ok \in BOOLEAN : ClosePage(s, close_ok)
  \/ \E start_ok \in BOOLEAN : AudioStart(start_ok)
  \/ \E result \in CaptureResults : AudioCapture(result)
  \/ \E upload_ok \in BOOLEAN, publish_ok \in BOOLEAN : AudioUpload(upload_ok, publish_ok)
  \/ AudioResume
  \/ RosterStart
  \/ \E ps \in SessionSnapshots : RosterRead(ps)
  \/ \E ps \in SessionSnapshots : RosterRecheck(ps)
  \/ RosterSleepDone
  \/ \E ps \in SessionSnapshots : RosterConfirm(ps)
  \/ RosterLeave

SessionSpec == InitSession /\ [][NextSession]_vars

\* the steps of the audio task, of the roster task, and of the runner once
\* wait_for_meeting_end has returned
AudioTask ==
  \/ \E start_ok \in BOOLEAN : AudioStart(start_ok)
  \/ \E result \in CaptureResults : AudioCapture(result)
  \/ \E upload_ok \in BOOLEAN, publish_ok \in BOOLEAN : AudioUpload(upload_ok, publish_ok)
  \/ AudioResume

RosterTask ==
  \/ RosterStart
  \/ \E ps \in SessionSnapshots : RosterRead(ps)
  \/ \E ps \in SessionSnapshots : RosterRecheck(ps)
  \/ RosterSleepDone
  \/ \E ps \in SessionSnapshots : RosterConfirm(ps)
  \/ RosterLeave

RunnerAfterWait(s) ==
  \/ \E publish_ok \in BOOLEAN, save_ok \in BOOLEAN : FinishSession(s, publish_ok, save_ok)
  \/ \E close_ok \in BOOLEAN : ClosePage(s, close_ok)

\* the event loop runs every task that is ready and every wait with a
\* timeout completes; when wait_for_meeting_end returns is decided by what
\* its own polls find on the page, so its return is not a fair step
SessionLiveSpec ==
  /\ InitSession /\ [][NextSession]_vars
  /\ WF_vars(AudioTask)
  /\ WF_vars(RosterTask)
  /\ WF_vars(RunnerAfterWait(TheSession))

(***************************************************************************)
(* The end of the join flows: what join_meeting does once the join button  *)
(* was clicked (src/src/google_meet/join_meeting.py, _validate_in_meeting; *)
(* src/src/meeting_flow/teams_enhanced.py, join_meeting).  url_ok: the     *)
(* page is still on the platform's meeting URL; meeting_ui: a control of a *)
(* running meeting is in the content; waiting_text: a waiting-room text is *)
(* in the content; waiting_elem: what the query for that text gives.       *)
(***************************************************************************)
PostClickStates ==
  [url_ok : BOOLEAN, meeting_ui : BOOLEAN, waiting_text : BOOLEAN,
   waiting_elem : {"visible", "hidden", "raises"}]

\* _validate_in_meeting: "raise", or the return statement it leaves by
validate_in_meeting(post) ==
  IF ~post.url_ok THEN "raise"
  ELSE IF post.meeting_ui THEN "in_meeting"
  ELSE IF post.waiting_text /\ post.waiting_elem = "visible" THEN "waiting_room"
  ELSE "unclear"

\* the post-click check of TeamsFlowEnhanced.join_meeting: a warning is
\* logged when the URL is not that of a call, and the function returns
teams_post_click(post) ==
  IF ~post.url_ok THEN "warned" ELSE "in_call"

\* join_meeting returns normally after the click
join_returns(pf, post) ==
  IF pf = "gmeet" THEN validate_in_meeting(post) # "raise"
  ELSE teams_post_click(post) \in {"warned", "in_call"}

\* the join button was clicked and the page shows post: join_meeting
\* returns, status = in_meeting and wait_for_meeting_end is awaited; or it
\* raises and the page scope is left
JoinAfterClick(s, post) ==
  /\ pc[s] = "join"
  /\ post_click' = post
  /\ IF join_returns(platform[s], post)
     THEN /\ status' = [status EXCEPT ![s] = "in_meeting"]
          /\ pc' = [pc EXCEPT ![s] = "in_meeting"]
          /\ UNCHANGED exc
     ELSE /\ exc' = [exc EXCEPT ![s] = TRUE]
          /\ pc' = [pc EXCEPT ![s] = "closing"]
          /\ UNCHANGED status
  /\ UNCHANGED <<loopVars, chunk_interval_seconds, page, summary, compVars,
                 capacity, sessions, next_id, queue, semaphore, worker_pc,
                 worker_session, error, platform, events, rejected,
                 profileVars>>

\* one session of either platform from the start of its runner to its exit
InitJoin ==
  /\ capacity = 1
  /\ sessions = {TheSession}
  /\ next_id = TheSession + 1
  /\ queue = << >>
  /\ semaphore = 0
  /\ worker_pc = "get"
  /\ worker_session = 0
  /\ status = [s \in {TheSession} |-> "created"]
  /\ error = [s \in {TheSession} |-> "none"]
  /\ platform \in [{TheSession} -> Platforms]
  /\ pc = [s \in {TheSession} |-> "spawned"]
  /\ exc = [s \in {TheSession} |-> FALSE]
  /\ events = [s \in {TheSession} |-> <<Event("bot_joined", "created")>>]
  /\ rejected = 0
  /\ active_sessions = [s \in {TheSession} |-> NoProfile]
  /\ profile_dirs = {gmeet_profile_name}
  /\ profile_listed = profile_dirs
  /\ CallsIdle
  /\ LoopsIdle

NextJoin ==
  \/ \E s \in Sessions : RunSessionStart(s)
  \/ \E s \in Sessions : AcquirePage(s)
  \/ \E s \in Sessions : StartFails(s)
  \/ \E s \in Sessions : ContextCreated(s)
  \/ \E s \in Sessions : ContextFails(s)
  \/ \E s \in Sessions : JoinFails(s)
  \/ \E s \in Sessions, post \in PostClickStates : JoinAfterClick(s, post)
  \/ \E s \in Sessions : MeetingEnds(s)
  \/ \E s \in Sessions : WaitForEndRaises(s)
  \/ \E s \in Sessions, publish_ok \in BOOLEAN, save_ok \in BOOLEAN :
        FinishSession(s, publish_ok, save_ok)
  \/ \E s \in Sessions, close_ok \in BOOLEAN : ClosePage(s, close_ok)

JoinSpec == InitJoin /\ [][NextJoin]_vars

(***************************************************************************)
(* The end of the process (src/src/main.py registers a startup handler     *)
(* only; SessionManager has no stop method).  When the event loop is       *)
(* closed every task that is still pending is cancelled: CancelledError is *)
(* raised at the await the task is suspended on.  CancelledError is not an *)
(* Exception, so the except clause of _run_session_wrapper does not run;   *)
(* its finally clause and the finally clauses of the page scope do.  A     *)
(* runner that was spawned and never started runs no code at all.          *)
(***************************************************************************)
Up == worker_pc # "cancelled"

\* the runner of s is inside async with new_context / new_page
InPageScope(s) == pc[s] \in {"context", "join", "in_meeting", "gather", "closing"}

Started(s) == HoldsPermit(s) /\ pc[s] # "spawned"

Shutdown ==
  /\ Up
  /\ worker_pc' = "cancelled"
  /\ pc' = [s \in DOMAIN pc |-> IF HoldsPermit(s) THEN "done" ELSE pc[s]]
  /\ semaphore' = semaphore + Cardinality({s \in Sessions : Started(s)})
  /\ active_sessions' = [s \in DOMAIN active_sessions |->
                           IF InPageScope(s) THEN NoProfile
                           ELSE active_sessions[s]]
  /\ UNCHANGED <<loopVars, callVars, capacity, sessions, next_id, queue,
                 worker_session, status, error, platform, exc, events,
                 rejected, profile_dirs, profile_listed>>

NextShutdown ==
  \/ Up /\ \E plat \in Platforms, url \in Urls : enqueue_session(plat, url)
  \/ Up /\ WorkerGet
  \/ Up /\ WorkerAcquire
  \/ Up /\ \E s \in Sessions : RunSessionStart(s)
  \/ Up /\ \E s \in Sessions : AcquirePage(s)
  \/ Up /\ \E s \in Sessions : StartFails(s)
  \/ Up /\ \E s \in Sessions : ContextCreated(s)
  \/ Up /\ \E s \in Sessions : ContextFails(s)
  \/ Up /\ \E s \in Sessions : JoinSucceeds(s)
  \/ Up /\ \E s \in Sessions : JoinFails(s)
  \/ Up /\ \E s \in Sessions : MeetingEnds(s)
  \/ Up /\ \E s \in Sessions : WaitForEndRaises(s)
  \/ Up /\ \E s \in Sessions, publish_ok \in BOOLEAN, save_ok \in BOOLEAN :
              FinishSession(s, publish_ok, save_ok)
  \/ Up /\ \E s \in Sessions, close_ok \in BOOLEAN : ClosePage(s, close_ok)
  \/ Shutdown

ShutdownSpec == Init /\ [][NextShutdown]_vars

(***************************************************************************)
(* ImprovedAudioCaptureLoop (src/src/audio_chunk_manager.py), as           *)
(* src/test_audio_chunks.py runs it: constructed on its own, run as a      *)
(* task, stopped by its stop_event.  Timestamps are datetime.now() read    *)
(* from a clock that does not run backwards, counted in seconds; an        *)
(* awaited operation takes one of Delays seconds.                          *)
(***************************************************************************)
Delays == {0, 1}

ChunkData(n, start_time, end_time) ==
  [chunk_number |-> n, start_timestamp |-> start_time, end_timestamp |-> end_time]

\* the while test of run and what follows without suspension: the loop is
\* left (cleanup) when stop_event is set, otherwise chunk_start_time is
\* read from the clock and the interval wait begins
loop_head_Backdated(l) ==
  IF l.stop_event
  THEN [l EXCEPT !.pc = "exited"]
  ELSE [l EXCEPT !.pc = "wait",
                 !.chunk_start_time =
                    IF l.chunks = << >> THEN l.now
                    ELSE l.chunk_start_time + chunk_interval_seconds]

loop_head(l) ==
  IF l.stop_event
  THEN [l EXCEPT !.pc = "exited"]
  ELSE [l EXCEPT !.pc = "wait", !.chunk_start_time = l.now]

\* run starts: _initialize_audio_capture (AudioCapture.start() succeeds or
\* raises and the fallback is used), then the first while test
ImprovedStart(start_ok, d) ==
  /\ improved_loop.pc = "created"
  /\ improved_loop' = loop_head([improved_loop EXCEPT !.audio_capture = start_ok,
                                                      !.now = @ + d])
  /\ UNCHANGED <<schedVars, profileVars, loopVars, chunk_interval_seconds,
                 page, summary, post_click, sink, call>>

\* stop_event.set() by the owner of the loop
ImprovedStop ==
  /\ improved_loop.pc \in {"wait", "capture", "detect"}
  /\ ~improved_loop.stop_event
  /\ improved_loop' = [improved_loop EXCEPT !.stop_event = TRUE]
  /\ UNCHANGED <<schedVars, profileVars, loopVars, chunk_interval_seconds,
                 page, summary, post_click, sink, call>>

\* wait_for returns because stop_event was set: break, cleanup
ImprovedWaitStopped ==
  /\ improved_loop.pc = "wait"
  /\ improved_loop.stop_event
  /\ improved_loop' = [improved_loop EXCEPT !.pc = "exited"]
  /\ UNCHANGED <<schedVars, profileVars, loopVars, chunk_interval_seconds,
                 page, summary, post_click, sink, call>>

\* wait_for raises TimeoutError after chunk_interval_seconds (d: how late
\* the task resumes): chunk_end_time is read and
\* _capture_and_process_chunk runs up to its first suspension
ImprovedWaitTimeout(d) ==
  /\ improved_loop.pc = "wait"
  /\ ~improved_loop.stop_event
  /\ improved_loop.chunk_start_time + chunk_interval_seconds + d <= MaxNow
  /\ LET t == improved_loop.chunk_start_time + chunk_interval_seconds + d
     IN improved_loop' =
          [improved_loop EXCEPT !.now = t,
                                !.chunk_end_time = t,
                                !.pc = IF improved_loop.audio_capture
                                       THEN "capture" ELSE "detect"]
  /\ UNCHANGED <<schedVars, profileVars, loopVars, chunk_interval_seconds,
                 page, summary, post_click, sink, call>>

\* capture_chunk returns or raises: _capture_audio_bytes falls back to the
\* silent WAV, so audio_bytes is never empty; analyze_chunk is awaited
ImprovedCapture(d) ==
  /\ improved_loop.pc = "capture"
  /\ improved_loop.now + d <= MaxNow
  /\ improved_loop' = [improved_loop EXCEPT !.now = @ + d, !.pc = "detect"]
  /\ UNCHANGED <<schedVars, profileVars, loopVars, chunk_interval_seconds,
                 page, summary, post_click, sink, call>>

\* ImprovedDetect that does not increment the counter
ImprovedDetect_NoIncrement(d, save_ok, publish_ok) ==
  /\ improved_loop.pc = "detect"
  /\ improved_loop.now + d <= MaxNow
  /\ save_ok /\ publish_ok
  /\ LET l == improved_loop
         c == ChunkData(l.chunk_counter, l.chunk_start_time, l.chunk_end_time)
     IN improved_loop' =
          loop_head([l EXCEPT !.now = @ + d,
                              !.chunks = Append(@, c),
                              !.published = Append(@, c)])
  /\ UNCHANGED <<schedVars, profileVars, loopVars, chunk_interval_seconds,
                 page, summary, post_click, sink, call>>

\* _detect_speakers returns (it catches its exceptions); the rest of
\* _capture_and_process_chunk runs without suspension: the audio file and
\* the chunk metadata are written (save_ok) or the write raises;
\* audio_chunk_complete is published (publish_ok) or publish_event raises;
\* the counter is incremented; then the while test.  An exception leaves
\* run
ImprovedDetect(d, save_ok, publish_ok) ==
  /\ improved_loop.pc = "detect"
  /\ improved_loop.now + d <= MaxNow
  /\ (~save_ok => ~publish_ok)
  /\ LET l == improved_loop
         c == ChunkData(l.chunk_counter, l.chunk_start_time, l.chunk_end_time)
     IN improved_loop' =
          IF ~save_ok
          THEN [l EXCEPT !.now = @ + d, !.pc = "crashed"]
          ELSE IF ~publish_ok
          THEN [l EXCEPT !.now = @ + d, !.pc = "crashed",
                         !.chunks = Append(@, c)]
          ELSE loop_head([l EXCEPT !.now = @ + d,
                                   !.chunks = Append(@, c),
                                   !.published = Append(@, c),
                                   !.chunk_counter = @ + 1])
  /\ UNCHANGED <<schedVars, profileVars, loopVars, chunk_interval_seconds,
                 page, summary, post_click, sink, call>>

\* the loop as constructed by ImprovedAudioCaptureLoop(...,
\* chunk_interval_seconds=30), before run is scheduled; no session exists
InitImproved ==
  /\ capacity = MaxConcurrentSessions
  /\ sessions = {}
  /\ next_id = 1
  /\ queue = << >>
  /\ semaphore = capacity
  /\ worker_pc = "get"
  /\ worker_session = 0
  /\ status = [s \in 1..NumSessions |-> "none"]
  /\ error = [s \in 1..NumSessions |-> "none"]
  /\ platform = [s \in 1..NumSessions |-> "none"]
  /\ pc = [s \in 1..NumSessions |-> "none"]
  /\ exc = [s \in 1..NumSessions |-> FALSE]
  /\ events = [s \in 1..NumSessions |-> << >>]
  /\ rejected = 0
  /\ active_sessions = [s \in 1..NumSessions |-> NoProfile]
  /\ profile_dirs = {}
  /\ profile_listed = {}
  /\ LoopsIdle
  /\ chunk_interval_seconds = 30
  /\ page = NoPage
  /\ summary = NoSummary
  /\ post_click = NoPostClick
  /\ sink = NoSink
  /\ call = NoCall
  /\ improved_loop = [pc |-> "created", stop_event |-> FALSE,
                      audio_capture |-> FALSE, chunk_counter |-> 0,
                      chunk_start_time |-> 0, chunk_end_time |-> 0,
                      now |-> 0, chunks |-> << >>, published |-> << >>]

NextImproved ==
  \/ \E start_ok \in BOOLEAN, d \in Delays : ImprovedStart(start_ok, d)
  \/ ImprovedStop
  \/ ImprovedWaitStopped
  \/ \E d \in Delays : ImprovedWaitTimeout(d)
  \/ \E d \in Delays : ImprovedCapture(d)
  \/ \E d \in Delays, save_ok \in BOOLEAN, publish_ok \in BOOLEAN :
        ImprovedDetect(d, save_ok, publish_ok)

ImprovedSpec == InitImproved /\ [][NextImproved]_vars

(***************************************************************************)
(* The sinks (src/src/events.py, EventPublisher.publish_event;             *)
(* src/src/storage.py, BlobStorageClient.upload_bytes_with_retry).  A      *)
(* caller makes one call after the other; log lists what the call in       *)
(* progress has done, in order: "local" (the local copy was written),      *)
(* "remote_ok" and "remote_failed" (an attempt on the Azure sink).         *)
(***************************************************************************)
SinkOps == {"publish_event", "upload_bytes_with_retry"}

\* max_retries of upload_bytes_with_retry
max_retries == 3

SinkAtRest == sink.pc \in {"idle", "returned", "raised"}

\* the caller calls publish_event or upload_bytes_with_retry
SinkCall(op) ==
  /\ sink.op # "none"
  /\ SinkAtRest
  /\ sink.calls < MaxCalls
  /\ sink' = [sink EXCEPT !.op = op, !.pc = "called", !.calls = @ + 1,
                          !.attempt = 0, !.log = << >>]
  /\ UNCHANGED <<schedVars, profileVars, loopVars, chunk_interval_seconds,
                 page, summary, post_click, improved_loop, call>>

\* publish_event: save_event writes the local copy (local_ok) or raises;
\* without a client the call returns; otherwise client.send is tried inside
\* try/except and the call returns
PublishEvent(local_ok, send_ok) ==
  /\ sink.op = "publish_event"
  /\ sink.pc = "called"
  /\ sink' =
       IF ~local_ok
       THEN [sink EXCEPT !.pc = "raised", !.raised = @ + 1]
       ELSE IF ~sink.client
       THEN [sink EXCEPT !.pc = "returned", !.returned = @ + 1,
                         !.log = <<"local">>, !.local_copies = @ + 1]
       ELSE [sink EXCEPT !.pc = "returned", !.returned = @ + 1,
                         !.log = <<"local", IF send_ok THEN "remote_ok"
                                            ELSE "remote_failed">>,
                         !.local_copies = @ + 1,
                         !.remote_copies = IF send_ok THEN @ + 1 ELSE @]
  /\ UNCHANGED <<schedVars, profileVars, loopVars, chunk_interval_seconds,
                 page, summary, post_click, improved_loop, call>>

\* upload_bytes_with_retry up to its first suspension: the local file is
\* written (local_ok) or the write raises; without a service client the
\* call returns local_path; otherwise the first attempt starts
UploadLocalSave(local_ok) ==
  /\ sink.op = "upload_bytes_with_retry"
  /\ sink.pc = "called"
  /\ sink' =
       IF ~local_ok
       THEN [sink EXCEPT !.pc = "raised", !.raised = @ + 1]
       ELSE IF ~sink.service_client
       THEN [sink EXCEPT !.pc = "returned", !.returned = @ + 1,
                         !.log = <<"local">>, !.local_copies = @ + 1]
       ELSE [sink EXCEPT !.pc = "attempt", !.attempt = 1,
                         !.log = <<"local">>, !.local_copies = @ + 1]
  /\ UNCHANGED <<schedVars, profileVars, loopVars, chunk_interval_seconds,
                 page, summary, post_click, improved_loop, call>>

\* UploadAttempt that raises when the last attempt has failed
UploadAttempt_RaiseAtLast(upload_ok) ==
  /\ sink.pc = "attempt"
  /\ sink' =
       IF upload_ok
       THEN [sink EXCEPT !.pc = "returned", !.returned = @ + 1,
                         !.log = Append(@, "remote_ok"),
                         !.remote_copies = @ + 1]
       ELSE IF sink.attempt = max_retries
       THEN [sink EXCEPT !.pc = "raised", !.raised = @ + 1,
                         !.log = Append(@, "remote_failed")]
       ELSE [sink EXCEPT !.pc = "sleep", !.log = Append(@, "remote_failed")]
  /\ UNCHANGED <<schedVars, profileVars, loopVars, chunk_interval_seconds,
                 page, summary, post_click, improved_loop, call>>

\* asyncio.to_thread(blob_client.upload_blob, ...) completes (break, return
\* local_path) or raises: the handler logs; after the last attempt the call
\* returns local_path, before it the call sleeps
UploadAttempt(upload_ok) ==
  /\ sink.pc = "attempt"
  /\ sink' =
       IF upload_ok
       THEN [sink EXCEPT !.pc = "returned", !.returned = @ + 1,
                         !.log = Append(@, "remote_ok"),
                         !.remote_copies = @ + 1]
       ELSE IF sink.attempt = max_retries
       THEN [sink EXCEPT !.pc = "returned", !.returned = @ + 1,
                         !.log = Append(@, "remote_failed")]
       ELSE [sink EXCEPT !.pc = "sleep", !.log = Append(@, "remote_failed")]
  /\ UNCHANGED <<schedVars, profileVars, loopVars, chunk_interval_seconds,
                 page, summary, post_click, improved_loop, call>>

\* asyncio.sleep(2 * attempt) is over: the next attempt
UploadSleep ==
  /\ sink.pc = "sleep"
  /\ sink' = [sink EXCEPT !.pc = "attempt", !.attempt = @ + 1]
  /\ UNCHANGED <<schedVars, profileVars, loopVars, chunk_interval_seconds,
                 page, summary, post_click, improved_loop, call>>

\* EventPublisher.create() and BlobStorageClient.create() have run: each
\* has its Azure client or, when it is not configured, None; nothing has
\* been written
InitSinks ==
  /\ capacity = MaxConcurrentSessions
  /\ sessions = {}
  /\ next_id = 1
  /\ queue = << >>
  /\ semaphore = capacity
  /\ worker_pc = "get"
  /\ worker_session = 0
  /\ status = [s \in 1..NumSessions |-> "none"]
  /\ error = [s \in 1..NumSessions |-> "none"]
  /\ platform = [s \in 1..NumSessions |-> "none"]
  /\ pc = [s \in 1..NumSessions |-> "none"]
  /\ exc = [s \in 1..NumSessions |-> FALSE]
  /\ events = [s \in 1..NumSessions |-> << >>]
  /\ rejected = 0
  /\ active_sessions = [s \in 1..NumSessions |-> NoProfile]
  /\ profile_dirs = {}
  /\ profile_listed = {}
  /\ LoopsIdle
  /\ chunk_interval_seconds = 30
  /\ page = NoPage
  /\ summary = NoSummary
  /\ post_click = NoPostClick
  /\ improved_loop = NoImprovedLoop
  /\ call = NoCall
  /\ \E c \in BOOLEAN, sc \in BOOLEAN :
       sink = [op |-> "idle", pc |-> "idle", client |-> c,
               service_client |-> sc, calls |-> 0, attempt |-> 0,
               log |-> << >>, local_copies |-> 0, remote_copies |-> 0,
               returned |-> 0, raised |-> 0]

NextSinks ==
  \/ \E op \in SinkOps : SinkCall(op)
  \/ \E local_ok \in BOOLEAN, send_ok \in BOOLEAN : PublishEvent(local_ok, send_ok)
  \/ \E local_ok \in BOOLEAN : UploadLocalSave(local_ok)
  \/ \E upload_ok \in BOOLEAN : UploadAttempt(upload_ok)
  \/ UploadSleep

SinksSpec == InitSinks /\ [][NextSinks]_vars

(***************************************************************************)
(* Calls of single functions.  No session exists; call holds the           *)
(* arguments of the call and, once it has returned, its result.            *)
(***************************************************************************)
Standalone ==
  /\ capacity = MaxConcurrentSessions
  /\ sessions = {}
  /\ next_id = 1
  /\ queue = << >>
  /\ semaphore = capacity
  /\ worker_pc = "get"
  /\ worker_session = 0
  /\ status = [s \in 1..NumSessions |-> "none"]
  /\ error = [s \in 1..NumSessions |-> "none"]
  /\ platform = [s \in 1..NumSessions |-> "none"]
  /\ pc = [s \in 1..NumSessions |-> "none"]
  /\ exc = [s \in 1..NumSessions |-> FALSE]
  /\ events = [s \in 1..NumSessions |-> << >>]
  /\ rejected = 0
  /\ LoopsIdle
  /\ chunk_interval_seconds = 30
  /\ page = NoPage
  /\ summary = NoSummary
  /\ post_click = NoPostClick
  /\ improved_loop = NoImprovedLoop
  /\ sink = NoSink

(***************************************************************************)
(* is_valid_participant_name on the texts a participant panel yields       *)
(* (src/src/participant_name_filter.py; the names of src/test_bot_fixes.py *)
(* and src/quick_test.py).                                                 *)
(***************************************************************************)
\* str.capitalize() of a lower-case text: what the panel shows for a
\* button label or a notification
UpperChar(c) ==
  IF c \in Letters
  THEN CHOOSE u \in {"A","B","C","D","E","F","G","H","I","J","K","L","M",
                     "N","O","P","Q","R","S","T","U","V","W","X","Y","Z"} :
         LowerChar(u) = c
  ELSE c
Capitalize(str) ==
  IF str = << >> THEN str ELSE <<UpperChar(Head(str))>> \o Tail(str)

\* good_names and bad_names of test_participant_name_filter
good_names ==
  { <<"J","o","h","n"," ","D","o","e">>,
    <<"J","a","n","e"," ","S","m","i","t","h">>,
    <<"S","n","e","h","i","l"," ","P","a","t","e","l">>,
    <<"A","l","i","c","e"," ","J","o","h","n","s","o","n">> }
bad_names ==
  { Capitalize(<<"b","a","c","k","g","r","o","u","n","d","s"," ","a","n","d"," ","e","f","f","e","c","t","s">>),
    Capitalize(<<"y","o","u"," ","c","a","n","'","t"," ","u","n","m","u","t","e"," ","s","o","m","e","o","n","e"," ","e","l","s","e">>),
    Capitalize(<<"y","o","u","r"," ","m","i","c","r","o","p","h","o","n","e"," ","i","s"," ","o","f","f",".">>),
    Capitalize(<<"y","o","u"," ","c","a","n","'","t"," ","r","e","m","o","t","e","l","y"," ","m","u","t","e">>),
    Capitalize(<<"s","e","t","t","i","n","g","s">>),
    Capitalize(<<"m","o","r","e"," ","o","p","t","i","o","n","s">>) }

\* a blacklisted text inside a longer one, with surrounding blanks
Embedded(b) ==
  <<" ","J","o","h","n"," ">> \o Capitalize(b) \o <<" ","D","o","e"," ">>

\* other texts of a panel: a count, a blank, a one-letter name, a name with
\* a title, a name that begins with "You"
other_names ==
  { <<"3">>, <<" ">>, <<"J">>,
    <<"D","r","."," ","J","o","h","n"," ","S","m","i","t","h">>,
    <<"Y","o","u"," ","C","h","e","n">>,
    <<"J","o","h","n"," ","D","o","e"," ","(","Y","o","u",")">> }

FilterNames ==
  UI_NOTIFICATION_BLACKLIST
    \cup {Capitalize(b) : b \in UI_NOTIFICATION_BLACKLIST}
    \cup {Embedded(b) : b \in UI_NOTIFICATION_BLACKLIST}
    \cup good_names \cup bad_names \cup other_names

InitFilter ==
  /\ Standalone
  /\ active_sessions = [s \in 1..NumSessions |-> NoProfile]
  /\ profile_dirs = {}
  /\ profile_listed = {}
  /\ \E n \in FilterNames :
       call = [fn |-> "is_valid_participant_name", pc |-> "called", name |-> n]

IsValidParticipantName ==
  /\ call.fn = "is_valid_participant_name"
  /\ call.pc = "called"
  /\ call' = [fn |-> call.fn, pc |-> "returned", name |-> call.name,
              result |-> is_valid_participant_name(call.name)]
  /\ UNCHANGED <<schedVars, profileVars, loopVars, chunk_interval_seconds,
                 page, summary, post_click, improved_loop, sink>>

NextFilter == IsValidParticipantName

FilterSpec == InitFilter /\ [][NextFilter]_vars

(***************************************************************************)
(* The history update of participants_loop over successive polls           *)
(* (src/src/session_manager.py, lines 564-593): the history of a session   *)
(* starts empty, and poll number k updates it with the rows it read and    *)
(* now_iso = k.                                                            *)
(***************************************************************************)
\* the rows of a poll: a person, the bot, a row whose name is blank
PollRows == {RowPerson, RowBot, RowBlank}
PollSnapshots == UNION {[1..n -> PollRows] : n \in 0..MaxPollRows}

InitHistory ==
  /\ Standalone
  /\ active_sessions = [s \in 1..NumSessions |-> NoProfile]
  /\ profile_dirs = {}
  /\ profile_listed = {}
  /\ call = [fn |-> "update_history", history |-> << >>, ps |-> << >>, now |-> 0]

HistoryPoll(ps) ==
  /\ call.fn = "update_history"
  /\ call.now < MaxHistoryPolls
  /\ call' = [fn |-> call.fn, ps |-> ps, now |-> call.now + 1,
              history |-> UpdateHistory(call.history, ps, call.now + 1)]
  /\ UNCHANGED <<schedVars, profileVars, loopVars, chunk_interval_seconds,
                 page, summary, post_click, improved_loop, sink>>

NextHistory == \E ps \in PollSnapshots : HistoryPoll(ps)

HistorySpec == InitHistory /\ [][NextHistory]_vars

(***************************************************************************)
(* RobustParticipantExtractor.extract_participants                         *)
(* (src/src/participant_extractor_robust.py).  The three extraction        *)
(* methods catch their exceptions and return lists of rows; the badge      *)
(* reader returns the count the page shows, 0 when it shows none.          *)
(***************************************************************************)
UI_ELEMENT_BLACKLIST ==
  { <<"b","a","c","k","g","r","o","u","n","d","s"," ","a","n","d"," ","e","f","f","e","c","t","s">>,
    <<"v","i","s","u","a","l"," ","e","f","f","e","c","t","s">>,
    <<"a","p","p","l","y"," ","v","i","s","u","a","l"," ","e","f","f","e","c","t","s">>,
    <<"b","a","c","k","g","r","o","u","n","d"," ","b","l","u","r">>,
    <<"y","o","u","r"," ","m","i","c","r","o","p","h","o","n","e"," ","i","s"," ","o","f","f">>,
    <<"y","o","u","r"," ","c","a","m","e","r","a"," ","i","s"," ","o","f","f">>,
    <<"m","i","c","r","o","p","h","o","n","e"," ","i","s"," ","o","f","f">>,
    <<"c","a","m","e","r","a"," ","i","s"," ","o","f","f">>,
    <<"m","i","c","r","o","p","h","o","n","e"," ","i","s"," ","o","n">>,
    <<"c","a","m","e","r","a"," ","i","s"," ","o","n">>,
    <<"y","o","u"," ","c","a","n","'","t"," ","r","e","m","o","t","e","l","y"," ","m","u","t","e">>,
    <<"y","o","u"," ","c","a","n","'","t"," ","u","n","m","u","t","e"," ","s","o","m","e","o","n","e"," ","e","l","s","e">>,
    <<"c","a","n","'","t"," ","r","e","m","o","t","e","l","y"," ","m","u","t","e">>,
    <<"c","a","n","'","t"," ","u","n","m","u","t","e">>,
    <<"t","u","r","n"," ","o","n"," ","m","i","c","r","o","p","h","o","n","e">>,
    <<"t","u","r","n"," ","o","f","f"," ","m","i","c","r","o","p","h","o","n","e">>,
    <<"t","u","r","n"," ","o","n"," ","c","a","m","e","r","a">>,
    <<"t","u","r","n"," ","o","f","f"," ","c","a","m","e","r","a">>,
    <<"m","u","t","e"," ","m","i","c","r","o","p","h","o","n","e">>,
    <<"u","n","m","u","t","e"," ","m","i","c","r","o","p","h","o","n","e">>,
    <<"p","r","e","s","e","n","t"," ","n","o","w">>,
    <<"s","t","o","p"," ","p","r","e","s","e","n","t","i","n","g">>,
    <<"r","a","i","s","e"," ","h","a","n","d">>,
    <<"l","o","w","e","r"," ","h","a","n","d">>,
    <<"e","n","d"," ","c","a","l","l">>,
    <<"l","e","a","v","e"," ","c","a","l","l">>,
    <<"i","n"," ","t","h","e"," ","m","e","e","t","i","n","g">>,
    <<"c","o","n","t","r","i","b","u","t","o","r","s">>,
    <<"a","d","d"," ","p","e","o","p","l","e">>,
    <<"s","e","a","r","c","h"," ","f","o","r"," ","p","e","o","p","l","e">>,
    <<"i","n","v","i","t","e">>,
    <<"s","h","a","r","e">>,
    <<"h","o","s","t"," ","c","o","n","t","r","o","l","s">>,
    <<"m","e","e","t","i","n","g"," ","d","e","t","a","i","l","s">>,
    <<"o","t","h","e","r"," ","p","e","o","p","l","e">>,
    <<"i","n"," ","t","h","i","s"," ","c","a","l","l">>,
    <<"w","a","i","t","i","n","g"," ","f","o","r"," ","o","t","h","e","r","s">>,
    <<"y","o","u","'","r","e"," ","t","h","e"," ","o","n","l","y"," ","o","n","e">>,
    <<"c","o","n","n","e","c","t","i","n","g">>,
    <<"r","e","c","o","n","n","e","c","t","i","n","g">>,
    <<"j","o","i","n","i","n","g">>,
    <<"s","e","t","t","i","n","g","s">>,
    <<"o","p","t","i","o","n","s">>,
    <<"m","o","r","e"," ","o","p","t","i","o","n","s">>,
    <<"m","o","r","e"," ","a","c","t","i","o","n","s">>,
    <<"s","e","n","d"," ","a"," ","m","e","s","s","a","g","e">>,
    <<"c","h","a","t">>,
    <<"a","c","t","i","v","i","t","i","e","s">>,
    <<"c","a","p","t","i","o","n","s">>,
    <<"s","u","b","t","i","t","l","e","s">>,
    <<"r","e","c","o","r","d","i","n","g">>,
    <<"b","r","e","a","k","o","u","t"," ","r","o","o","m","s">>,
    <<"l","a","y","o","u","t">>,
    <<"t","i","l","e","d">>,
    <<"s","p","o","t","l","i","g","h","t">>,
    <<"s","i","d","e","b","a","r">>,
    <<"a","u","t","o">>,
    <<"a","l","l","o","w">>,
    <<"d","e","n","y">>,
    <<"g","r","a","n","t">>,
    <<"p","e","r","m","i","s","s","i","o","n">>,
    <<"a","c","c","e","s","s">>,
    <<"e","n","a","b","l","e">>,
    <<"d","i","s","a","b","l","e">> }

\* the number of segments between "." that are not blank:
\* len([s for s in text.split(".") if s.strip()])
Sentences(str) ==
  Cardinality({i \in 1..Len(str) :
                 /\ str[i] \notin {".", " "}
                 /\ \A j \in 1..(i - 1) :
                      (\A k \in j..(i - 1) : str[k] # ".") => str[j] = " "})

\* is_ui_element(text)
is_ui_element(text) ==
  LET text_lower == Lower(Strip(text))
  IN \/ text = << >>
     \/ text_lower = << >>
     \/ \E blacklisted \in UI_ELEMENT_BLACKLIST : Contains(blacklisted, text_lower)
     \/ StartsWith(<<"y","o","u","r"," ">>, text_lower)
     \/ StartsWith(<<"y","o","u"," ">>, text_lower)
     \/ Contains(<<"c","a","n","'","t">>, text_lower)
     \/ Contains(<<"c","a","n","n","o","t">>, text_lower)
     \/ (EndsWith(<<".">>, text_lower) /\ Words(text_lower) > 4)
     \/ Sentences(text_lower) > 2
     \/ Len(text_lower) < 2
     \/ Len(text) > 100
     \/ ~(\E i \in 1..Len(text) : IsAlpha(text[i]))
     \/ (IsUpper(text) /\ \E i \in 1..Len(text) : text[i] \in Digits)

\* a row of a method is added: its stripped name is not empty, was not
\* seen (in lower case) and is not an element of the user interface
RowAdded(p, seen) ==
  LET name == Strip(p.name)
  IN name # << >> /\ Lower(name) \notin seen /\ ~is_ui_element(name)

\* the loop over the rows of one method: acc is all_participants and
\* seen_names
RECURSIVE AddRows(_, _)
AddRows(acc, rows) ==
  IF rows = << >> THEN acc
  ELSE AddRows(IF RowAdded(Head(rows), acc.seen)
               THEN [all |-> Append(acc.all, Head(rows)),
                     seen |-> acc.seen \cup {Lower(Strip(Head(rows).name))}]
               ELSE acc,
               Tail(rows))

\* str(i) for one digit
DigitChar(i) == <<"0","1","2","3","4","5","6","7","8","9">>[i + 1]

\* the placeholder entry i of the badge count fallback
Placeholder(i) ==
  [name |-> <<"P","a","r","t","i","c","i","p","a","n","t"," ">> \o <<DigitChar(i)>>,
   is_bot |-> FALSE, source |-> "badge_count_fallback"]

\* the three methods in turn: the second and the third only run while
\* fewer rows than the badge count were collected
Collected(badge_count, js, dom, panel) ==
  LET a1 == AddRows([all |-> << >>, seen |-> {}], js)
      a2 == IF Len(a1.all) < badge_count THEN AddRows(a1, dom) ELSE a1
      a3 == IF Len(a2.all) < badge_count THEN AddRows(a2, panel) ELSE a2
  IN a3.all

\* extract_participants that returns what the methods collected, without
\* the fallback
extract_participants_NoFallback(badge_count, js, dom, panel) ==
  Collected(badge_count, js, dom, panel)

\* extract_participants(page), for the badge count and the rows the
\* methods return on that page
extract_participants(badge_count, js, dom, panel) ==
  LET all_participants == Collected(badge_count, js, dom, panel)
  IN IF Len(all_participants) = 0 /\ badge_count > 0
     THEN [i \in 1..badge_count |-> Placeholder(i)]
     ELSE all_participants

\* what a method returns in the model: at most MaxMethodRows rows, each a
\* person, the bot, a label of the user interface or a blank name
MethodRows == {RowPerson, RowBot, RowLabel, RowBlank}
MethodResults == UNION {[1..n -> MethodRows] : n \in 0..MaxMethodRows}

InitExtract ==
  /\ Standalone
  /\ active_sessions = [s \in 1..NumSessions |-> NoProfile]
  /\ profile_dirs = {}
  /\ profile_listed = {}
  /\ \E n \in 0..MaxBadge, js \in MethodResults, dom \in MethodResults,
        panel \in MethodResults :
       call = [fn |-> "extract_participants", pc |-> "called",
               badge_count |-> n, js |-> js, dom |-> dom, panel |-> panel]

ExtractParticipants ==
  /\ call.fn = "extract_participants"
  /\ call.pc = "called"
  /\ call' = [fn |-> call.fn, pc |-> "returned",
              badge_count |-> call.badge_count, js |-> call.js,
              dom |-> call.dom, panel |-> call.panel,
              result |-> extract_participants(call.badge_count, call.js,
                                              call.dom, call.panel)]
  /\ UNCHANGED <<schedVars, profileVars, loopVars, chunk_interval_seconds,
                 page, summary, post_click, improved_loop, sink>>

NextExtract == ExtractParticipants

ExtractSpec == InitExtract /\ [][NextExtract]_vars

(***************************************************************************)
(* The disconnection check of the end detector                             *)
(* (src/src/meeting_end_detector.py, _check_disconnected).  The content of *)
(* the page is the set of indicators that occur in it.                     *)
(***************************************************************************)
disconnect_indicators ==
  <<"trying to reconnect", "connection lost", "disconnected", "reconnecting",
    "network error">>

Indicators == {disconnect_indicators[k] : k \in DOMAIN disconnect_indicators}

\* "trying to reconnect" in page_content or "reconnecting" in page_content
Reconnecting(page_content) ==
  "trying to reconnect" \in page_content \/ "reconnecting" \in page_content

\* the content read at the start of the check (a read that raises makes the
\* check return False)
InitDisconnect ==
  /\ Standalone
  /\ active_sessions = [s \in 1..NumSessions |-> NoProfile]
  /\ profile_dirs = {}
  /\ profile_listed = {}
  /\ \E page_content \in SUBSET Indicators, read_ok \in BOOLEAN :
       call = [fn |-> "_check_disconnected",
               pc |-> IF read_ok THEN "scan" ELSE "returned",
               page_content |-> page_content, i |-> 1, waits |-> 0,
               updated_content |-> {}, result |-> FALSE]

\* the for loop from indicator i up to its suspension or its return: an
\* indicator that is in the content makes the check wait when the page is
\* reconnecting, and return True when it is not
DisconnectScan ==
  /\ call.fn = "_check_disconnected"
  /\ call.pc = "scan"
  /\ LET found == {k \in call.i..Len(disconnect_indicators) :
                     disconnect_indicators[k] \in call.page_content}
     IN IF found = {}
        THEN call' = [call EXCEPT !.pc = "returned", !.result = FALSE]
        ELSE LET k == CHOOSE k \in found : \A m \in found : k <= m
             IN IF Reconnecting(call.page_content)
                THEN call' = [call EXCEPT !.pc = "wait", !.i = k]
                ELSE call' = [call EXCEPT !.pc = "returned", !.i = k,
                                          !.result = TRUE]
  /\ UNCHANGED <<schedVars, profileVars, loopVars, chunk_interval_seconds,
                 page, summary, post_click, improved_loop, sink>>

\* page.wait_for_timeout(10000) and the second page.content() return (ok)
\* or raise; an indicator in the updated content makes the check return
\* True, none sends the loop on to the next indicator of the first content
DisconnectRecheck(ok, updated_content) ==
  /\ call.fn = "_check_disconnected"
  /\ call.pc = "wait"
  /\ IF ~ok
     THEN call' = [call EXCEPT !.pc = "returned", !.result = FALSE]
     ELSE IF updated_content # {}
     THEN call' = [call EXCEPT !.pc = "returned", !.waits = call.waits + 1,
                               !.updated_content = updated_content,
                               !.result = TRUE]
     ELSE call' = [call EXCEPT !.pc = "scan", !.i = call.i + 1,
                               !.waits = call.waits + 1,
                               !.updated_content = updated_content]
  /\ UNCHANGED <<schedVars, profileVars, loopVars, chunk_interval_seconds,
                 page, summary, post_click, improved_loop, sink>>

NextDisconnect ==
  \/ DisconnectScan
  \/ \E ok \in BOOLEAN, updated_content \in SUBSET Indicators :
        DisconnectRecheck(ok, updated_content)

DisconnectSpec == InitDisconnect /\ [][NextDisconnect]_vars

(***************************************************************************)
(* The click of the Google Meet join flow                                  *)
(* (src/src/google_meet/join_meeting.py, _join_meeting).  A try of a       *)
(* selector is one pass of a for loop: the button is absent (the wait for  *)
(* it raises, or it is not visible), its click raises, or it is clicked;   *)
(* a generic button can also carry a text that is not a join text.         *)
(***************************************************************************)
join_now_selectors ==
  <<"button:has-text(Join now)", "[aria-label*=Join now]",
    "[aria-label*=Join meeting]", "[jsname=Qx7uuf]",
    "button[data-tooltip*=Join now]">>

ask_to_join_selectors ==
  <<"button:has-text(Ask to join)", "[aria-label*=Ask to join]",
    "button[aria-label*=ask to join i]">>

generic_join_selectors ==
  <<"button:has-text(Join)", "[aria-label*=Join]", "button[data-tooltip*=Join]">>

\* the three loops in the order of the code
JoinGroups == <<"join_now", "ask_to_join", "generic">>

GroupSelectors(g) ==
  IF g = 1 THEN join_now_selectors
  ELSE IF g = 2 THEN ask_to_join_selectors
  ELSE generic_join_selectors

TryOutcomes(g) ==
  {"absent", "click_raises", "clicked"} \cup (IF g = 3 THEN {"other_text"} ELSE {})

InitJoinClick ==
  /\ Standalone
  /\ active_sessions = [s \in 1..NumSessions |-> NoProfile]
  /\ profile_dirs = {}
  /\ profile_listed = {}
  /\ call = [fn |-> "_join_meeting", pc |-> "pre_wait", group |-> 1, k |-> 1,
             tried |-> << >>, clicked |-> << >>, screenshot |-> "none",
             error |-> "none"]

\* page.wait_for_timeout(3000) before the loops returns, or raises
JoinPreWait(ok) ==
  /\ call.fn = "_join_meeting"
  /\ call.pc = "pre_wait"
  /\ call' = IF ok THEN [call EXCEPT !.pc = "try"]
             ELSE [call EXCEPT !.pc = "raised", !.error = "Exception"]
  /\ UNCHANGED <<schedVars, profileVars, loopVars, chunk_interval_seconds,
                 page, summary, post_click, improved_loop, sink>>

\* the position after a try that did not click: the next selector of the
\* loop, the first selector of the next loop, or the end of the loops
AfterTry(c) ==
  IF c.k < Len(GroupSelectors(c.group)) THEN [c EXCEPT !.k = c.k + 1]
  ELSE IF c.group < Len(JoinGroups) THEN [c EXCEPT !.group = c.group + 1, !.k = 1]
  ELSE [c EXCEPT !.pc = "no_button"]

\* a try that goes on to the next selector after a click as well
JoinTry_NoBreak(outcome) ==
  /\ call.fn = "_join_meeting"
  /\ call.pc = "try"
  /\ outcome \in TryOutcomes(call.group)
  /\ LET logged == [call EXCEPT
                      !.tried = Append(call.tried,
                                       [group |-> call.group, k |-> call.k,
                                        outcome |-> outcome]),
                      !.clicked = IF outcome = "clicked"
                                  THEN Append(call.clicked, JoinGroups[call.group])
                                  ELSE call.clicked]
     IN call' = AfterTry(logged)
  /\ UNCHANGED <<schedVars, profileVars, loopVars, chunk_interval_seconds,
                 page, summary, post_click, improved_loop, sink>>

\* one try of selector k of loop group: a click sets join_clicked and breaks,
\* which skips the loops that follow; anything else continues
JoinTry(outcome) ==
  /\ call.fn = "_join_meeting"
  /\ call.pc = "try"
  /\ outcome \in TryOutcomes(call.group)
  /\ LET logged == [call EXCEPT
                      !.tried = Append(call.tried,
                                       [group |-> call.group, k |-> call.k,
                                        outcome |-> outcome])]
     IN IF outcome = "clicked"
        THEN call' = [logged EXCEPT
                        !.clicked = Append(call.clicked, JoinGroups[call.group]),
                        !.pc = "post_wait"]
        ELSE call' = AfterTry(logged)
  /\ UNCHANGED <<schedVars, profileVars, loopVars, chunk_interval_seconds,
                 page, summary, post_click, improved_loop, sink>>

\* not join_clicked after the three loops: _capture_error_screenshot (which
\* catches its own exceptions), then raise GoogleMeetJoinError
JoinNoButton(shot_ok) ==
  /\ call.fn = "_join_meeting"
  /\ call.pc = "no_button"
  /\ call' = [call EXCEPT !.pc = "raised",
                          !.screenshot = IF shot_ok THEN "saved" ELSE "failed",
                          !.error = "GoogleMeetJoinError"]
  /\ UNCHANGED <<schedVars, profileVars, loopVars, chunk_interval_seconds,
                 page, summary, post_click, improved_loop, sink>>

\* page.wait_for_timeout(3000) after the click returns, or raises
JoinPostWait(ok) ==
  /\ call.fn = "_join_meeting"
  /\ call.pc = "post_wait"
  /\ call' = IF ok THEN [call EXCEPT !.pc = "returned"]
             ELSE [call EXCEPT !.pc = "raised", !.error = "Exception"]
  /\ UNCHANGED <<schedVars, profileVars, loopVars, chunk_interval_seconds,
                 page, summary, post_click, improved_loop, sink>>

NextJoinClick ==
  \/ \E ok \in BOOLEAN : JoinPreWait(ok)
  \/ \E outcome \in {"absent", "click_raises", "clicked", "other_text"} :
        JoinTry(outcome)
  \/ \E shot_ok \in BOOLEAN : JoinNoButton(shot_ok)
  \/ \E ok \in BOOLEAN : JoinPostWait(ok)

JoinClickSpec == InitJoinClick /\ [][NextJoinClick]_vars

(***************************************************************************)
(* Properties of the scheduler and the runner.                             *)
(***************************************************************************)
RunningSessions == {s \in Sessions : status[s] \in Running}
PermitHolders == {s \in Sessions : HoldsPermit(s)}
Summaries(s) == SelectSeq(events[s], LAMBDA e : e.type = "meeting_summary")

\* C1: the number of sessions whose status is joining or in_meeting never
\* exceeds max_concurrent_sessions
C1_ConcurrencyBound == Cardinality(RunningSessions) <= capacity

\* C1 witness: max_concurrent_sessions sessions are running and the worker
\* holds a further admitted session that waits for a permit
C1_Witness ==
  /\ Cardinality(RunningSessions) = capacity
  /\ worker_pc = "acquire"
  /\ status[worker_session] = "created"

\* C3 (as claimed): the status changes only along created -> joining ->
\* in_meeting -> ended or from a non-terminal status to failed, and a
\* terminal status never changes
StatusStep(a, b) ==
  \/ a = "none" /\ b = "created"
  \/ a = "created" /\ b = "joining"
  \/ a = "joining" /\ b = "in_meeting"
  \/ a = "in_meeting" /\ b = "ended"
  \/ a \in {"created", "joining", "in_meeting"} /\ b = "failed"

C3_StatusMachine ==
  [][\A s \in Sessions : status'[s] # status[s] => StatusStep(status[s], status'[s])]_vars

\* C8 (as claimed): a session whose runner has exited with a terminal
\* status has exactly one meeting_summary event, carrying that status, and
\* a session that is not terminal has none
C8_SummaryExactlyOnce ==
  \A s \in Sessions :
    /\ (pc[s] = "done" /\ status[s] \in Terminal) =>
         (Len(Summaries(s)) = 1 /\ Summaries(s)[1].status = status[s])
    /\ status[s] \notin Terminal => Len(Summaries(s)) = 0

\* C9: an enqueue_session call whose URL does not match the platform's
\* pattern raises and leaves the session table, the queue, the events and
\* every session unchanged
C9_RejectedUnchanged ==
  [][\A plat \in Platforms, url \in Urls :
       (~ValidMeetingUrl(plat, url) /\ enqueue_session(plat, url)) =>
          /\ rejected' = rejected + 1
          /\ UNCHANGED <<sessions, next_id, queue, events, status, pc, platform,
                         semaphore>>]_vars

\* C9 witness: an admission was rejected while another session was admitted
C9_Witness == rejected > 0 /\ sessions # {}

\* C10: while max_concurrent_sessions runners hold their permits a session
\* without a permit stays created; the waiting session is dispatched only
\* when a runner has exited with a terminal status; and every admitted
\* session eventually leaves created
C10_WaitsForPermit ==
  /\ [][\A s \in Sessions :
          (status[s] = "created" /\ ~HoldsPermit(s)
             /\ Cardinality(PermitHolders) = capacity)
          => status'[s] = "created"]_vars
  /\ [][\A s \in Sessions :
          (pc[s] = "taken" /\ pc'[s] # "taken")
          => \E r \in Sessions : pc'[r] = "done" /\ status'[r] \in Terminal]_vars
  /\ \A s \in 1..NumSessions :
        (status[s] = "created") ~> (status[s] \notin {"none", "created"})

\* C10 witness: every permit is held and an admitted session waits in
\* status created for one
C10_Witness ==
  /\ Cardinality(PermitHolders) = capacity
  /\ semaphore = 0
  /\ \E s \in Sessions : pc[s] = "taken" /\ status[s] = "created"
  /\ \E r \in Sessions : status[r] = "in_meeting"

\* C2 (as claimed): no profile name is held by more than one session
C2_ProfileExclusive ==
  \A s1 \in Sessions, s2 \in Sessions :
    (s1 # s2 /\ active_sessions[s1] # NoProfile) =>
       active_sessions[s1] # active_sessions[s2]

C12_ProfileReleased ==
  \A s \in Sessions :
    /\ active_sessions[s] # NoProfile => InPageScope(s)
    /\ (use_enhanced(s) /\ InPageScope(s)) => active_sessions[s] # NoProfile

\* C12 witness: a session that used a profile ended normally and holds
\* none, one failed and holds none, and a third still holds its profile
C12_Witness ==
  /\ \E s \in Sessions :
        /\ use_enhanced(s) /\ pc[s] = "done" /\ status[s] = "ended"
        /\ active_sessions[s] = NoProfile
  /\ \E s \in Sessions :
        /\ use_enhanced(s) /\ pc[s] = "done" /\ status[s] = "failed"
        /\ active_sessions[s] = NoProfile
  /\ \E s \in Sessions : active_sessions[s] # NoProfile

\* the audio chunk and participant_update events published for session s
LoopEvents(s) ==
  SelectSeq(events[s], LAMBDA e : e.type \in {"audio_chunk_created", "participant_update"})

\* C13: when join_meeting raises the session is still joining and no loop
\* has been created; from there its runner can only exit with status
\* failed and an error; the loops are created only by a join that returns,
\* with status in_meeting; and while they are not created no chunk is
\* saved and no audio chunk or participant_update event is published
C13_JoinFailure ==
  /\ [][\A s \in Sessions :
          (pc[s] = "join" /\ pc'[s] = "closing") =>
             /\ status'[s] = "joining"
             /\ audio_pc' = "idle" /\ roster_pc' = "idle"]_vars
  /\ [][\A s \in Sessions :
          (pc[s] = "closing" /\ status[s] = "joining" /\ pc'[s] # pc[s]) =>
             /\ pc'[s] = "done"
             /\ status'[s] = "failed"
             /\ error'[s] # "none"]_vars
  /\ [][(audio_pc = "idle" /\ roster_pc = "idle"
          /\ (audio_pc' # "idle" \/ roster_pc' # "idle")) =>
             \E s \in Sessions : pc[s] = "join" /\ status'[s] = "in_meeting"]_vars
  /\ [](\A s \in Sessions :
          (audio_pc = "idle" /\ roster_pc = "idle") =>
             /\ status[s] # "in_meeting"
             /\ LoopEvents(s) = << >>
             /\ chunks = << >>)

\* C13 witness: join_meeting has raised for a session whose profile is
\* still allocated, and the loops are not created
C13_Witness ==
  \E s \in Sessions :
    /\ pc[s] = "closing" /\ status[s] = "joining" /\ exc[s]
    /\ audio_pc = "idle" /\ roster_pc = "idle"

C24_JoiningInAdmissionOrder ==
  [][\A b \in sessions :
       (status[b] = "created" /\ status'[b] = "joining") =>
         \A a \in sessions : a < b => status[a] # "created"]_vars

\* C24 witness: the session admitted second has entered joining while the
\* capacity was used up by the session admitted first at its admission
C24_Witness ==
  /\ Cardinality(sessions) >= 2
  /\ status[2] = "joining"
  /\ status[1] \in Terminal

\* C25 (as claimed): every session inside its page scope, whatever its
\* platform, holds a profile the registry allocated to it, and no two
\* sessions inside their page scopes hold the same profile
C25_PageScopeHoldsOwnProfile ==
  \A s \in Sessions :
    InPageScope(s) =>
      /\ active_sessions[s] # NoProfile
      /\ \A t \in Sessions \ {s} :
           InPageScope(t) => active_sessions[t] # active_sessions[s]

\* C26: once the process has shut down no session is left in a non-terminal
\* status: every session the scheduler knows is ended or failed
C26_NoSessionLeftAfterShutdown ==
  ~Up => \A s \in sessions : status[s] \in Terminal

\* the profile the allocation order of C34 gives when no preferred profile
\* is passed (new_page_for_session passes none): the main profile if no
\* session holds it, else the first listed profile no session holds, else
\* google_k for the smallest k >= 1 that no session holds and that does not
\* exist yet
ClaimedProfile(active, dirs, listed) ==
  LET held == HeldProfiles(active)
      free == {q \in listed : q \notin held}
  IN IF gmeet_profile_name \notin held THEN gmeet_profile_name
     ELSE IF free # {}
          THEN CHOOSE q \in free : \A r \in free : SortKey(q) <= SortKey(r)
          ELSE CHOOSE k \in 1..MaxProfile :
                 /\ k \notin held \cup dirs
                 /\ \A j \in 1..(k - 1) : j \in held \cup dirs

\* C34: the profile allocate_profile records for a session is the one the
\* allocation order names, and a profile it creates is one no session
\* holds
C34_AllocationOrder ==
  [][\A s \in Sessions :
       (pc[s] = "start" /\ pc'[s] = "context" /\ use_enhanced(s)) =>
         /\ active_sessions'[s] =
              ClaimedProfile(active_sessions, profile_dirs, profile_listed)
         /\ active_sessions'[s] \notin HeldProfiles(active_sessions)]_vars

(***************************************************************************)
(* Properties of the audio loop.                                           *)
(***************************************************************************)
\* C4 (as claimed): the chunk numbers embedded in the ids of the chunks the
\* audio loop records are exactly 0, 1, 2, ... in order, without gaps or
\* repeats
C4_ChunkNumbersGapFree ==
  \A i \in 1..Len(chunks) : chunks[i].chunk_id = i - 1

\* C15 (as claimed): an iteration whose audio is not validated real audio
\* (a silent placeholder, or bytes that could not be validated) leaves
\* chunk_counter unchanged, and the counter changes only in a step that
\* records a chunk of validated real audio
C15_CounterOnlyForRealAudio ==
  [][/\ (audio_pc = "upload" /\ audio_pc' = "wait" /\ audio_bytes # "real") =>
          chunk_counter' = chunk_counter
     /\ chunk_counter' # chunk_counter =>
          (audio_bytes = "real" /\ Len(chunks') = Len(chunks) + 1)]_vars

\* the audio_chunk_created events published for session s
ChunkEvents(s) == SelectSeq(events[s], LAMBDA e : e.type = "audio_chunk_created")

\* C16 (as claimed): the audio_chunks of a session's meeting_summary is the
\* number of chunks its audio loop recorded, which is the number of
\* audio_chunk_created events published for it
C16_SummaryCountsChunks ==
  \A s \in Sessions :
    \A i \in 1..Len(Summaries(s)) :
      /\ Summaries(s)[i].audio_chunks = Len(ChunkEvents(s))
      /\ Summaries(s)[i].audio_chunks = Len(chunks)

\* C28: the audio loop records a chunk only in an iteration it entered
\* through an interval wait that timed out (every iteration but the first:
\* chunk_id > 0), and it records none once stop_event is set
C28_ChunkOnlyAfterFullWait ==
  [][Len(chunks') > Len(chunks) => (chunk_id > 0 /\ ~stop_event)]_vars

\* C31: when the roster loop of a session was terminated by an error, the
\* meeting_summary of the session lists an error
C31_LoopErrorInSummary ==
  \A s \in Sessions :
    (LoopsModelled /\ s = TheSession /\ roster_pc = "crashed") =>
      \A i \in 1..Len(Summaries(s)) : Summaries(s)[i].errors # << >>

\* C38: status becomes ended only in the step that follows the gather:
\* wait_for_meeting_end has returned, stop_event is set and both tasks are
\* done; and once the status is ended no chunk is recorded and no entry of
\* the history is written
C38_EndedAfterLoopsExit ==
  [][\A s \in Sessions :
       (LoopsModelled /\ s = TheSession) =>
         /\ (status'[s] = "ended" /\ status[s] # "ended") =>
              /\ pc[s] = "gather"
              /\ stop_event
              /\ audio_pc = "exited"
              /\ roster_pc \in {"exited", "crashed"}
         /\ status[s] = "ended" =>
              /\ chunks' = chunks
              /\ chunk_counter' = chunk_counter
              /\ participants_history' = participants_history]_vars

\* C38 witness: the session ended after its audio loop recorded a chunk
\* and its roster loop wrote an entry of the history
C38_Witness ==
  /\ LoopsModelled
  /\ status[TheSession] = "ended"
  /\ pc[TheSession] = "done"
  /\ chunks # << >>
  /\ DOMAIN participants_history # {}

\* C39: once the roster loop has confirmed the empty meeting and set
\* stop_event, the audio loop exits, the session reaches a terminal status
\* and its permit is released, whatever the end detector decides
C39_StopSignalEndsSession ==
  (LoopsModelled /\ stop_event /\ roster_pc = "exited"
     /\ pc[TheSession] = "in_meeting")
    ~> (audio_pc = "exited" /\ status[TheSession] \in Terminal
          /\ pc[TheSession] = "done" /\ semaphore = 1)

(***************************************************************************)
(* Properties of the end detector.                                         *)
(***************************************************************************)
\* the number of polls at the end of the log whose empty check was true
RECURSIVE TrailingEmpty(_)
TrailingEmpty(log) ==
  IF log = << >> THEN 0
  ELSE IF log[Len(log)] THEN 1 + TrailingEmpty(SubSeq(log, 1, Len(log) - 1))
  ELSE 0

\* C5: the detector returns for an empty meeting only when the empty check
\* was true on the last three polls, and consecutive_empty_checks is the
\* number of polls since the last one whose empty check was false (a false
\* check resets it to zero)
C5_ThreeConsecutiveEmpty ==
  /\ end_reason = "empty" =>
        /\ Len(empty_log) >= 3
        /\ \A i \in (Len(empty_log) - 2)..Len(empty_log) : empty_log[i]
  /\ consecutive_empty_checks = TrailingEmpty(empty_log)

\* C5 witness: two empty polls were followed by a poll that was not empty,
\* and the detector returned for an empty meeting later
C5_Witness ==
  /\ end_reason = "empty"
  /\ \E i \in 3..Len(empty_log) :
        ~empty_log[i] /\ empty_log[i - 1] /\ empty_log[i - 2]

C36_DisconnectOnlyAfterRecheck ==
  (call.fn = "_check_disconnected" /\ call.pc = "returned" /\ call.result) =>
    /\ call.page_content # {}
    /\ call.waits >= 1
    /\ call.updated_content # {}

\* C40: a poll of the detector that raises neither ends the wait nor fails
\* it: the handler sleeps and the loop polls again; and the failed poll
\* resets consecutive_empty_checks, so that empty polls before it and after
\* it do not add up
C40_FailedPollResetsCount ==
  [][/\ (detector_pc = "sleep" /\ detector_pc' = "recover") =>
          (consecutive_empty_checks' = 0 /\ end_reason' = "none")
     /\ detector_pc = "recover" => detector_pc' = "poll"]_vars

(***************************************************************************)
(* Properties of the roster loop.                                          *)
(***************************************************************************)
\* C7 (as claimed): the roster loop sets stop_event only when the
\* confirmation extraction, made after the 15 second wait, shows no real
\* participant and at most one row; and when that extraction shows a real
\* participant or more than one row the loop goes on polling with
\* stop_event not set
C7_ConfirmBeforeStop ==
  [][/\ (stop_event' /\ ~stop_event) =>
          /\ roster_pc = "leaving"
          /\ Len(participants_again) <= 1
          /\ Len(real_participants_again(participants_again)) = 0
     /\ (/\ roster_pc = "confirm"
         /\ roster_pc' # "confirm"
         /\ \/ Len(participants_again') > 1
            \/ Len(real_participants_again(participants_again')) > 0) =>
          /\ roster_pc' \in {"wait", "read"}
          /\ ~stop_event']_vars

C20_KeepsBotsDropsInvalid ==
  summary # NoSummary =>
    /\ \A name \in DOMAIN participants_history :
         name \in DOMAIN summary.participants <=>
           \/ summary_is_bot(name, participants_history[name])
           \/ is_valid_participant_name(name)
    /\ DOMAIN summary.real_participants =
         {name \in DOMAIN summary.participants : ~summary.participants[name].is_bot}

(***************************************************************************)
(* Properties of the Google Meet empty check.                              *)
(***************************************************************************)
\* C18 (as claimed): when no read of the page raises, the Google Meet
\* empty check returns true exactly when
\* the badge shows at most 1, at most one row was extracted, no row is
\* classified as real, and the one row, if there is one, is classified as
\* bot by its is_bot flag, a "(you)" marker or the bot's name; otherwise it
\* returns false
C18_EmptyExactlyWhenBotAlone ==
  (empty_log # << >> /\ ~page.raises) =>
    empty_log[1] =
      (/\ page.badge_count <= 1
       /\ Len(page.rows) <= 1
       /\ \A i \in 1..Len(page.rows) :
            \/ page.rows[i].is_bot
            \/ Contains(YouLower, Lower(page.rows[i].original_name))
            \/ Lower(Strip(page.rows[i].name)) = Lower(bot_display_name))

\* a row carries the "(you)" marker: its lowered original name contains it
HasYouMarker(original_name) == Contains(YouLower, Lower(original_name))

\* the empty check of the logged poll reached its split of the rows
SplitReached == empty_log # << >> /\ ~page.raises /\ page.badge_count <= 1

\* C19 (as claimed): at every place that splits roster entries into bot and
\* real (the poll of the roster loop, the empty check of the detector, the
\* summary builder), a named entry whose original_name contains "(you)" in
\* any case is classified as bot
C19_YouMarkerMeansBot ==
  /\ \A i \in 1..Len(participants) :
       (Strip(participants[i].name) # << >> /\ HasYouMarker(participants[i].original_name))
         => IsBotRow(participants[i])
  /\ SplitReached =>
       \A i \in 1..Len(page.rows) :
         (Strip(page.rows[i].name) # << >> /\ HasYouMarker(page.rows[i].original_name))
           => detector_is_bot(page.rows[i])
  /\ summary # NoSummary =>
       \A name \in DOMAIN summary.participants :
         HasYouMarker(summary.participants[name].original_name)
           => summary.participants[name].is_bot

(***************************************************************************)
(* Properties of the improved audio loop.                                  *)
(***************************************************************************)
\* C27: the chunks of an ImprovedAudioCaptureLoop do not overlap: each
\* chunk starts no later than it ends, and a chunk ends no later than the
\* next chunk starts
C27_ChunksDoNotOverlap ==
  LET cs == improved_loop.chunks
  IN improved_loop.pc # "none" =>
       /\ \A i \in 1..Len(cs) : cs[i].start_timestamp <= cs[i].end_timestamp
       /\ \A i \in 1..(Len(cs) - 1) :
            cs[i].end_timestamp <= cs[i + 1].start_timestamp

\* C27 witness: two chunks were recorded, the first ended later than its
\* interval and the second starts after it
C27_Witness ==
  /\ improved_loop.pc # "none"
  /\ Len(improved_loop.chunks) >= 2
  /\ improved_loop.chunks[1].end_timestamp >
       improved_loop.chunks[1].start_timestamp + chunk_interval_seconds
  /\ improved_loop.chunks[2].start_timestamp >= improved_loop.chunks[1].end_timestamp

\* C29: the counter of an ImprovedAudioCaptureLoop is the number of chunks
\* it has published: the k-th published chunk carries chunk_number k - 1,
\* so the published numbers increase strictly and none is repeated
C29_CounterCountsPublishedChunks ==
  LET ps == improved_loop.published
  IN improved_loop.pc # "none" =>
       /\ improved_loop.chunk_counter = Len(ps)
       /\ \A i \in 1..Len(ps) : ps[i].chunk_number = i - 1
       /\ \A i \in 1..Len(ps), j \in 1..Len(ps) :
            i < j => ps[i].chunk_number < ps[j].chunk_number

\* C29 witness: three chunks were published and the loop has exited
C29_Witness ==
  /\ improved_loop.pc = "exited"
  /\ Len(improved_loop.published) = 3
  /\ improved_loop.chunk_counter = 3

(***************************************************************************)
(* Properties of the sinks.                                                *)
(***************************************************************************)
RemoteEntries == {"remote_ok", "remote_failed"}

\* C30: a call of publish_event or upload_bytes_with_retry that has tried
\* the remote sink wrote its local copy first, and a call in which a remote
\* attempt failed does not raise: the only call that raises is one whose
\* local write failed, before any remote attempt; every call that is over
\* has returned or raised, and every remote copy has its local copy
C30_LocalFirstRemoteFailureSwallowed ==
  sink.op \in SinkOps =>
    /\ (\E i \in 1..Len(sink.log) : sink.log[i] \in RemoteEntries)
          => sink.log[1] = "local"
    /\ \A i \in 2..Len(sink.log) : sink.log[i] \in RemoteEntries
    /\ sink.pc = "raised" => sink.log = << >>
    /\ SinkAtRest => sink.returned + sink.raised = sink.calls
    /\ sink.remote_copies <= sink.local_copies

\* C30 witness: an upload whose three remote attempts all failed returned,
\* after an event was published with a failing remote sink; no call raised
C30_Witness ==
  /\ sink.op = "upload_bytes_with_retry"
  /\ sink.pc = "returned"
  /\ sink.log = <<"local", "remote_failed", "remote_failed", "remote_failed">>
  /\ sink.calls = 2
  /\ sink.local_copies = 2
  /\ sink.remote_copies = 0
  /\ sink.client
  /\ sink.raised = 0

(***************************************************************************)
(* Properties of the name filter.                                          *)
(***************************************************************************)
\* the text contains an entry of the blacklist, whatever the case
ContainsBlacklisted(name) ==
  \E b \in UI_NOTIFICATION_BLACKLIST : Contains(Lower(b), Lower(name))

PollNames(ps) == {Strip(ps[i].name) : i \in 1..Len(ps)} \ {<< >>}

\* C33: after the history update of a poll, every name the poll shows has
\* a record without leave_time; every name seen before and not shown has a
\* leave_time, which is the time of this poll if it had none and is left
\* as it was otherwise; a name seen before keeps its join_time, and a new
\* name gets the time of this poll as join_time
C33_HistoryUpdate ==
  [][(call.fn = "update_history" /\ call'.now = call.now + 1) =>
       LET before == call.history
           after == call'.history
           shown == PollNames(call'.ps)
       IN /\ DOMAIN after = DOMAIN before \cup shown
          /\ \A n \in shown : after[n].leave_time = 0
          /\ \A n \in DOMAIN before \ shown :
               IF before[n].leave_time = 0
               THEN after[n].leave_time = call'.now
               ELSE after[n].leave_time = before[n].leave_time
          /\ \A n \in DOMAIN before : after[n].join_time = before[n].join_time
          /\ \A n \in shown \ DOMAIN before : after[n].join_time = call'.now]_vars

\* C33 witness: at the third poll the person seen at the first poll is
\* shown and has no leave_time, and the bot, seen at the first poll and
\* absent since the second, has kept the leave_time of the second poll
C33_Witness ==
  /\ call.fn = "update_history"
  /\ call.now = 3
  /\ call.ps = <<RowPerson>>
  /\ DOMAIN call.history = {RowPerson.name, bot_display_name}
  /\ call.history[RowPerson.name].join_time = 1
  /\ call.history[RowPerson.name].leave_time = 0
  /\ call.history[bot_display_name].join_time = 1
  /\ call.history[bot_display_name].leave_time = 2

(***************************************************************************)
(* Properties of the participant extractor.                                *)
(***************************************************************************)
\* some row of the sequence carries a valid name
HasValidName(rows) ==
  \E i \in 1..Len(rows) :
    Strip(rows[i].name) # << >> /\ ~is_ui_element(Strip(rows[i].name))

IsPlaceholder(p) == "source" \in DOMAIN p

\* C35: with a badge count N >= 1 and no valid name from any method the
\* result is the N placeholders Participant 1 .. Participant N, none of
\* them a bot; with a valid name from some method the result holds no
\* placeholder; the result is empty only when the badge count is 0 and no
\* valid name was collected
C35_BadgeCountFallback ==
  (call.fn = "extract_participants" /\ call.pc = "returned") =>
    LET anyValid == HasValidName(call.js) \/ HasValidName(call.dom)
                      \/ HasValidName(call.panel)
    IN /\ (call.badge_count >= 1 /\ ~anyValid) =>
            /\ Len(call.result) = call.badge_count
            /\ \A i \in 1..Len(call.result) :
                 /\ call.result[i] = Placeholder(i)
                 /\ ~call.result[i].is_bot
       /\ anyValid => \A i \in 1..Len(call.result) : ~IsPlaceholder(call.result[i])
       /\ call.result = << >> => (call.badge_count = 0 /\ ~HasValidName(call.js))

\* C35 witness: the badge shows 2, the methods return only a label of the
\* user interface and a blank name, and two placeholders are returned
C35_Witness ==
  /\ call.fn = "extract_participants"
  /\ call.pc = "returned"
  /\ call.badge_count = 2
  /\ call.js = <<RowLabel>>
  /\ call.dom = <<RowBlank>>
  /\ call.panel = << >>
  /\ call.result = <<Placeholder(1), Placeholder(2)>>

(***************************************************************************)
(* Properties of the join flows.                                           *)
(***************************************************************************)
\* the tries of loop g that are in the log
TriesOf(c, g) == {i \in 1..Len(c.tried) : c.tried[i].group = g}

\* every selector of loop g was tried and none of the tries clicked
Exhausted(c, g) ==
  /\ Cardinality(TriesOf(c, g)) = Len(GroupSelectors(g))
  /\ \A i \in TriesOf(c, g) : c.tried[i].outcome # "clicked"

Admitted(pf, post) ==
  IF pf = "gmeet"
  THEN post.url_ok /\ (post.meeting_ui \/ (post.waiting_text /\ post.waiting_elem = "visible"))
  ELSE post.url_ok

\* C21 (as claimed): once the join button was clicked, a session becomes
\* in_meeting only if the page is in an admitted state; in every other
\* post-click page state the join raises and the session never is
\* in_meeting
C21_JoinOnlyWhenAdmitted ==
  \A s \in Sessions :
    (post_click # NoPostClick /\ status[s] \in {"in_meeting", "ended"})
      => Admitted(platform[s], post_click)

(***************************************************************************)
(* Properties of the events of a session.                                  *)
(***************************************************************************)
\* the positions of the events of one type among the events of session s
EventPositions(s, type) == {i \in 1..Len(events[s]) : events[s][i].type = type}

\* C22 (as claimed): a session that went from joining to in_meeting has
\* exactly one session_joined event, published after its bot_joined event
\* and before each of its participant_update and audio chunk events
C22_SessionJoinedOnce ==
  \A s \in Sessions :
    status[s] \in {"in_meeting", "ended"} =>
      /\ Cardinality(EventPositions(s, "session_joined")) = 1
      /\ \A j \in EventPositions(s, "session_joined") :
           /\ \A b \in EventPositions(s, "bot_joined") : b < j
           /\ \A l \in EventPositions(s, "participant_update")
                         \cup EventPositions(s, "audio_chunk_created") : j < l

\* the number of participant_update events among the events evs
Updates(evs) == Cardinality({i \in 1..Len(evs) : evs[i].type = "participant_update"})

\* C23 (as claimed): while stop_event is not set, every iteration of the
\* roster loop ends with the publication of one participant_update event
\* and leads to the next poll; the loop ends only once stop_event is set
C23_UpdateAfterEachPoll ==
  [][(/\ roster_pc \in {"read", "recheck", "confirm"}
      /\ roster_pc' \in {"read", "crashed", "exited"}
      /\ ~stop_event') =>
        /\ roster_pc' = "read"
        /\ Updates(events'[TheSession]) = Updates(events[TheSession]) + 1]_vars

============================================================================
